---- MODULE Spec2Model ----
(***************************************************************************)
(* Model of the VideoTransDemo core: the receiver's RTP -> Annex-B        *)
(* depacketizer (src/src/h264_writer.go, writeH264ToFile) and the          *)
(* per-frame controllers (NDTC, Salsify, BurstRTC) with their sample       *)
(* windows.                                                                *)
(*                                                                         *)
(* Bytes are the integers 0..255; the bit operations of the code are       *)
(* written arithmetically (b & 0x1F = b % 32, b & 0xE0 = (b \div 32) * 32).*)
(* The output file is the sequence of the Write calls made on the          *)
(* buffered writer, each a byte sequence; Flatten gives its bytes.         *)
(***************************************************************************)
EXTENDS Integers, Sequences, FiniteSets, TLC

VARIABLES
    \* ---- writeH264ToFile (receiver) ----
    file,        \* the Write calls made on the bufio writer, in order
    fuBuffer,    \* FU-A reassembly buffer: [isNil, data]
    fuNALType,   \* NAL type remembered at the last FU-A start fragment
    frameID,     \* receiver frame counter (recordFrameMetrics)
    packets,     \* payloads read from the track so far (packetCount = Len)
    running,     \* TRUE while the receive loop iterates
    \* ---- lossless sender (environment of the round-trip law) ----
    sent,        \* NAL units the sender has packetised, in order
    net,         \* payloads in flight, FIFO
    \* ---- per-frame controllers (sender) ----
    ctrlKind,    \* which server runs: "ndtc", "salsify", "burst" ("none")
    ndtc,        \* NdtcController: [cfg, capacityBps, lastEstimatedBps]
    fdaceWin,    \* FdaceWindow: [samples, maxCount]
    salsify,     \* SalsifyController: [cfg, observations,
                 \*                     avgThroughputBitsPerSec, lossRate]
    burst,       \* BurstController: [cfg, observations, frameSizeMean,
                 \*   frameSizeVar, availableBps, totalBits, totalDuration]
    obsLog,      \* every observation handed to the window so far, in order
    budget,      \* what the last NextFrameBudget call returned
    ctrlOps,     \* state-changing controller calls made so far
    \* ---- sender process: main, state handlers, send-loop goroutine ----
    sender,      \* [kind, loopVideo, remaining, peer, cancelled, loopPc,
                 \*  done, mainPc, codecFreed, samples, writeFailed, ...]
    \* ---- receive loop of writeH264ToFile in time ----
    recvLoop,    \* [pc, now, startTime, lastReadTime, bytesWritten, ...]
    \* ---- recordFrameMetrics / MetricsCSVWriter ----
    metrics,     \* [epochLoaded, metadata, now, lastFrameReceiveTime,
                 \*  frameID, rows]
    \* ---- updateEncoderForBudgetBurst ----
    enc          \* [burstCurrentCRF, burstLastBudgetBits, context, ...]

vars == <<file, fuBuffer, fuNALType, frameID, packets, running, sent, net,
          ctrlKind, ndtc, fdaceWin, salsify, burst, obsLog, budget,
          ctrlOps, sender, recvLoop, metrics, enc>>

depackVars == <<file, fuBuffer, fuNALType, frameID, packets, running>>

ctrlVars == <<ctrlKind, ndtc, fdaceWin, salsify, burst, obsLog, budget,
              ctrlOps>>

auxVars == <<sender, recvLoop, metrics, enc>>

(***************************************************************************)
(* Bounds                                                                  *)
(***************************************************************************)
MaxPackets == 4   \* payloads read in one run of the arbitrary-input spec
MaxNals == 2      \* NAL units packetised by the lossless sender
MaxCtrlOps == 3   \* state-changing controller calls in one run

(***************************************************************************)
(* Byte helpers                                                            *)
(***************************************************************************)
startCode == <<0, 0, 0, 1>>

NalTypeOf(b) == b % 32                 \* b & 0x1F

HighBits(b) == (b \div 32) * 32        \* b & 0xE0

StartBit(b) == (b \div 128) % 2 = 1    \* (b & 0x80) != 0

EndBit(b) == (b \div 64) % 2 = 1       \* (b & 0x40) != 0

Drop(s, n) == SubSeq(s, n + 1, Len(s)) \* s[n:]

RECURSIVE Flatten(_)
Flatten(ss) == IF ss = <<>> THEN <<>> ELSE Head(ss) \o Flatten(Tail(ss))

NilBuffer == [isNil |-> TRUE, data |-> <<>>]

Buffer(d) == [isNil |-> FALSE, data |-> d]

(***************************************************************************)
(* writeNALUnit: nothing for empty data, else start code then the data.    *)
(***************************************************************************)
\* Mutant: the empty check is missing.
writeNALUnit_NoEmptyCheck(f, nalData) == f \o <<startCode, nalData>>

writeNALUnit(f, nalData) ==
    IF Len(nalData) = 0 THEN f ELSE f \o <<startCode, nalData>>

RECURSIVE WriteAll(_, _)
WriteAll(f, nals) ==
    IF nals = <<>> THEN f
    ELSE WriteAll(writeNALUnit(f, Head(nals)), Tail(nals))

(***************************************************************************)
(* STAP-A: the NAL units of the {uint16-BE size, NAL} tuples from the      *)
(* 0-based offset on, up to the first incomplete or overrunning tuple.     *)
(***************************************************************************)
\* Mutant: an overrunning tuple is written as far as the payload goes.
RECURSIVE StapNals_TruncatedTail(_, _)
StapNals_TruncatedTail(payload, offset) ==
    IF ~(offset < Len(payload)) THEN <<>>
    ELSE IF offset + 2 > Len(payload) THEN <<>>
    ELSE LET nalSize == payload[offset + 1] * 256 + payload[offset + 2]
             off == offset + 2
         IN  IF off + nalSize > Len(payload)
             THEN <<SubSeq(payload, off + 1, Len(payload))>>
             ELSE <<SubSeq(payload, off + 1, off + nalSize)>>
                      \o StapNals_TruncatedTail(payload, off + nalSize)

RECURSIVE StapNals(_, _)
StapNals(payload, offset) ==
    IF ~(offset < Len(payload)) THEN <<>>
    ELSE IF offset + 2 > Len(payload) THEN <<>>
    ELSE LET nalSize == payload[offset + 1] * 256 + payload[offset + 2]
             off == offset + 2
         IN  IF off + nalSize > Len(payload) THEN <<>>
             ELSE <<SubSeq(payload, off + 1, off + nalSize)>>
                      \o StapNals(payload, off + nalSize)

(***************************************************************************)
(* FU-A: the reassembly buffer after a fragment (before the end check).    *)
(***************************************************************************)
\* Mutants: the NRI bits of the indicator dropped; the type bits not or-ed in.
FuHeaderByte_NoNri(nalHeader, actualNALType) == actualNALType

FuHeaderByte_NoType(nalHeader, actualNALType) == HighBits(nalHeader)

FuHeaderByte(nalHeader, actualNALType) == HighBits(nalHeader) + actualNALType

\* Mutant: a non-start fragment is appended whatever the buffer and the type.
FuAfterFragment_NoContinuityCheck(buf, remembered, payload) ==
    LET fuHeader == payload[2]
    IN  IF StartBit(fuHeader)
        THEN Buffer(<<FuHeaderByte(payload[1], NalTypeOf(fuHeader))>>
                        \o Drop(payload, 2))
        ELSE Buffer(buf.data \o Drop(payload, 2))

\* Mutant: a fragment of the remembered type is appended to a cleared buffer.
FuAfterFragment_NoNilCheck(buf, remembered, payload) ==
    LET fuHeader == payload[2]
    IN  IF StartBit(fuHeader)
        THEN Buffer(<<FuHeaderByte(payload[1], NalTypeOf(fuHeader))>>
                        \o Drop(payload, 2))
        ELSE IF NalTypeOf(fuHeader) = remembered
             THEN Buffer(buf.data \o Drop(payload, 2))
             ELSE NilBuffer

\* Mutant: a continuation keeps its FU header byte.
FuAfterFragment_KeepFuHeader(buf, remembered, payload) ==
    LET fuHeader == payload[2]
    IN  IF StartBit(fuHeader)
        THEN Buffer(<<FuHeaderByte(payload[1], NalTypeOf(fuHeader))>>
                        \o Drop(payload, 2))
        ELSE IF ~buf.isNil /\ NalTypeOf(fuHeader) = remembered
             THEN Buffer(buf.data \o Drop(payload, 1))
             ELSE NilBuffer

FuAfterFragment(buf, remembered, payload) ==
    LET fuHeader == payload[2]
    IN  IF StartBit(fuHeader)
        THEN Buffer(<<FuHeaderByte(payload[1], NalTypeOf(fuHeader))>>
                        \o Drop(payload, 2))
        ELSE IF ~buf.isNil /\ NalTypeOf(fuHeader) = remembered
             THEN Buffer(buf.data \o Drop(payload, 2))
             ELSE NilBuffer

IsFrameStartType(t) == t = 1 \/ t = 5

(***************************************************************************)
(* One iteration of the receive loop on a payload: the state after it.     *)
(***************************************************************************)
HandlePayload(st, payload) ==
    IF Len(payload) < 1 THEN st
    ELSE LET nalHeader == payload[1]
             nalType == NalTypeOf(nalHeader)
         IN
         IF nalType >= 1 /\ nalType <= 23
         THEN [st EXCEPT !.file = writeNALUnit(st.file, payload),
                         !.frameID = IF IsFrameStartType(nalType)
                                     THEN st.frameID + 1 ELSE st.frameID,
                         !.fuBuffer = NilBuffer]
         ELSE IF nalType = 24
         THEN [st EXCEPT !.file = WriteAll(st.file, StapNals(payload, 1)),
                         !.fuBuffer = NilBuffer]
         ELSE IF nalType = 28
         THEN IF Len(payload) < 2 THEN st
              ELSE LET fuHeader == payload[2]
                       remembered == IF StartBit(fuHeader)
                                     THEN NalTypeOf(fuHeader)
                                     ELSE st.fuNALType
                       buf == FuAfterFragment(st.fuBuffer, st.fuNALType, payload)
                   IN  IF buf.isNil
                       THEN [st EXCEPT !.fuBuffer = NilBuffer]
                       ELSE IF EndBit(fuHeader)
                       THEN [st EXCEPT
                               !.file = writeNALUnit(st.file, buf.data),
                               !.frameID = IF IsFrameStartType(remembered)
                                           THEN st.frameID + 1 ELSE st.frameID,
                               !.fuNALType = remembered,
                               !.fuBuffer = NilBuffer]
                       ELSE [st EXCEPT !.fuNALType = remembered,
                                       !.fuBuffer = buf]
         ELSE st

DepackState ==
    [file |-> file, fuBuffer |-> fuBuffer, fuNALType |-> fuNALType,
     frameID |-> frameID]

\* track.ReadRTP returned a packet with this payload; the loop handles it.
ReadRTP(payload) ==
    /\ running
    /\ LET r == HandlePayload(DepackState, payload)
       IN  /\ file' = r.file
           /\ fuBuffer' = r.fuBuffer
           /\ fuNALType' = r.fuNALType
           /\ frameID' = r.frameID
    /\ packets' = Append(packets, payload)
    /\ UNCHANGED running

\* The loop breaks (EOF, read error, timeout, max duration, max size): an
\* incomplete FU-A buffer is discarded with a warning, the writer flushed.
StopLoop ==
    /\ running
    /\ running' = FALSE
    /\ UNCHANGED <<file, fuBuffer, fuNALType, frameID, packets, sent, net>>
    /\ UNCHANGED ctrlVars
    /\ UNCHANGED auxVars

(***************************************************************************)
(* float64 arithmetic of the controllers.                                  *)
(*                                                                         *)
(* A float64 is modelled by the exact rational it stands for, [n, d] in    *)
(* lowest terms with d > 0, or is NaN; the relative rounding error of      *)
(* 2^-53 of the normal range is not modelled.  NaN propagates through      *)
(* arithmetic and every comparison with it is false.  time.Duration is an  *)
(* integer number of nanoseconds.  Products that are only converted to an  *)
(* integer are computed on decimal limbs so that they do not depend on the *)
(* width of the checker's integers.                                        *)
(***************************************************************************)
NaN == [n |-> 0, d |-> 0]

IsNaN(x) == x.d = 0

Abs(x) == IF x < 0 THEN -x ELSE x

RECURSIVE Gcd(_, _)
Gcd(a, b) == IF b = 0 THEN a ELSE Gcd(b, a % b)

Rat(n, d) == LET g == Gcd(Abs(n), d) IN [n |-> n \div g, d |-> d \div g]

R(k) == [n |-> k, d |-> 1]

RMul(x, y) ==
    IF IsNaN(x) \/ IsNaN(y) THEN NaN
    ELSE LET g1 == Gcd(Abs(x.n), y.d)
             g2 == Gcd(Abs(y.n), x.d)
         IN  [n |-> (x.n \div g1) * (y.n \div g2),
              d |-> (x.d \div g2) * (y.d \div g1)]

\* 1 / x for x # 0
RInv(x) == IF IsNaN(x) THEN NaN
           ELSE IF x.n > 0 THEN [n |-> x.d, d |-> x.n]
           ELSE [n |-> -x.d, d |-> -x.n]

RDiv(x, y) == RMul(x, RInv(y))

RAdd(x, y) ==
    IF IsNaN(x) \/ IsNaN(y) THEN NaN
    ELSE LET g == Gcd(x.d, y.d)
         IN  Rat(x.n * (y.d \div g) + y.n * (x.d \div g),
                 (x.d \div g) * y.d)

RSub(x, y) == RAdd(x, [n |-> -y.n, d |-> y.d])

RLt(x, y) == ~IsNaN(x) /\ ~IsNaN(y) /\ RSub(x, y).n < 0

RLe(x, y) == ~IsNaN(x) /\ ~IsNaN(y) /\ RSub(x, y).n <= 0

\* x > 0
RPos(x) == x.n > 0

\* x <= 0
RLe0(x) == ~IsNaN(x) /\ x.n <= 0

\* time.Duration.Seconds()
Seconds(ns) == Rat(ns, 1000000000)

\* Non-negative integers of any size: decimal limbs, least significant first.
Base == 10000

RECURSIVE BigOfInt(_)
BigOfInt(k) == IF k < Base THEN <<k>>
               ELSE <<k % Base>> \o BigOfInt(k \div Base)

RECURSIVE BigMulSmall(_, _, _)
BigMulSmall(b, s, carry) ==
    IF b = <<>> THEN (IF carry = 0 THEN <<>> ELSE BigOfInt(carry))
    ELSE LET t == b[1] * s + carry
         IN  <<t % Base>> \o BigMulSmall(Tail(b), s, t \div Base)

RECURSIVE BigAdd(_, _, _)
BigAdd(a, b, carry) ==
    IF a = <<>> /\ b = <<>> THEN (IF carry = 0 THEN <<>> ELSE <<carry>>)
    ELSE LET x == IF a = <<>> THEN 0 ELSE a[1]
             y == IF b = <<>> THEN 0 ELSE b[1]
             t == x + y + carry
         IN  <<t % Base>> \o BigAdd(IF a = <<>> THEN <<>> ELSE Tail(a),
                                    IF b = <<>> THEN <<>> ELSE Tail(b),
                                    t \div Base)

RECURSIVE BigMulInt(_, _)
BigMulInt(b, k) ==
    IF k < Base THEN BigMulSmall(b, k, 0)
    ELSE BigAdd(BigMulSmall(b, k % Base, 0),
                <<0>> \o BigMulInt(b, k \div Base), 0)

RECURSIVE BigDivRec(_, _, _, _)
BigDivRec(b, i, d, rem) ==
    IF i = 0 THEN <<>>
    ELSE LET cur == rem * Base + b[i]
         IN  BigDivRec(b, i - 1, d, cur % d) \o <<cur \div d>>

BigDivSmall(b, d) == BigDivRec(b, Len(b), d, 0)

\* floor(b / d); a divisor too wide for one limb step loses its factors of
\* 10, 2 and 5 first (floor(floor(b / x) / y) = floor(b / (x * y))).
RECURSIVE BigDivInt(_, _)
BigDivInt(b, d) ==
    IF d < 200000 THEN BigDivSmall(b, d)
    ELSE IF d % 10 = 0 THEN BigDivInt(BigDivSmall(b, 10), d \div 10)
    ELSE IF d % 2 = 0 THEN BigDivInt(BigDivSmall(b, 2), d \div 2)
    ELSE IF d % 5 = 0 THEN BigDivInt(BigDivSmall(b, 5), d \div 5)
    ELSE BigDivSmall(b, d)

RECURSIVE BigToInt(_)
BigToInt(b) == IF b = <<>> THEN 0 ELSE b[1] + Base * BigToInt(Tail(b))

RECURSIVE BigNumerator(_, _)
BigNumerator(rs, i) ==
    IF i = 0 THEN <<1>> ELSE BigMulInt(BigNumerator(rs, i - 1), rs[i].n)

RECURSIVE BigQuotient(_, _, _)
BigQuotient(b, rs, i) ==
    IF i = 0 THEN b ELSE BigQuotient(BigDivInt(b, rs[i].d), rs, i - 1)

\* floor(x1 * x2 * ... * xk) for non-negative factors
TruncProd(rs) ==
    BigToInt(BigQuotient(BigNumerator(rs, Len(rs)), rs, Len(rs)))

MinInt == -2147483647

MaxInt == 2147483647

\* int(x1 * x2 * ... * xk): Go's conversion truncates towards zero; the
\* conversion of a NaN is implementation-dependent (the smallest int on
\* amd64, 0 on arm64; MinInt and MaxInt stand for the ends of int).
IntOfProd(rs) ==
    IF \E i \in 1..Len(rs) : IsNaN(rs[i]) THEN {MinInt, 0, MaxInt}
    ELSE {TruncProd(rs)}

(***************************************************************************)
(* NDTC: FdaceWindow (fdace_estimator.go) and NdtcController.              *)
(*                                                                         *)
(* The capacity and the estimates are float64 values that may also lie in  *)
(* the subnormal range: [sub |-> TRUE, v |-> k] is k times the smallest    *)
(* positive float64 (2^-1074, printed 5e-324), [sub |-> FALSE, v |-> r]    *)
(* the normal value r.  A product in the subnormal range is rounded to a   *)
(* whole number of quanta, to nearest, ties to even; the constants 0.1,    *)
(* 0.9 and 1.05 are stored slightly above their decimal value, so their    *)
(* ties round up.  A sum of a normal and a subnormal value is the normal   *)
(* one.                                                                    *)
(***************************************************************************)
Normal(r) == [sub |-> FALSE, v |-> r]

Quanta(k) == [sub |-> TRUE, v |-> R(k)]

\* x > 0
FPos(x) == x.v.n > 0

\* x <= 0
FLe0(x) == RLe0(x.v)

RECURSIVE IsPow2(_)
IsPow2(d) == d = 1 \/ (d % 2 = 0 /\ IsPow2(d \div 2))

RoundToQuantum(r, exact) ==
    LET f == r.n \div r.d
        twice == 2 * (r.n % r.d)
    IN  IF twice < r.d THEN f
        ELSE IF twice > r.d THEN f + 1
        ELSE IF exact /\ f % 2 = 0 THEN f
        ELSE f + 1

\* c * x for a normal positive factor c
FMul(c, x) ==
    IF IsNaN(c) \/ IsNaN(x.v) THEN Normal(NaN)
    ELSE IF x.sub THEN Quanta(RoundToQuantum(RMul(c, x.v), IsPow2(c.d)))
    ELSE Normal(RMul(c, x.v))

FAdd(x, y) ==
    IF IsNaN(x.v) \/ IsNaN(y.v) THEN Normal(NaN)
    ELSE IF x.sub = y.sub THEN [sub |-> x.sub, v |-> RAdd(x.v, y.v)]
    ELSE IF x.sub THEN y ELSE x

Second == 1000000000

DefaultMaxCount == 120

NewFdaceWindow(maxCount) ==
    [samples |-> <<>>,
     maxCount |-> IF maxCount <= 0 THEN DefaultMaxCount ELSE maxCount]

LastN_KeepOldest(s, n) == IF Len(s) > n THEN SubSeq(s, 1, n) ELSE s

\* s[len(s)-n:] when len(s) > n
LastN(s, n) == IF Len(s) > n THEN SubSeq(s, Len(s) - n + 1, Len(s)) ELSE s

UpdateSample(w, s) ==
    IF RLe0(s.L) THEN w
    ELSE [w EXCEPT !.samples = LastN(Append(w.samples, s), w.maxCount)]

RECURSIVE SumRates(_, _)
SumRates(samples, i) ==
    IF i = 0 THEN [sum |-> R(0), cnt |-> 0]
    ELSE LET rest == SumRates(samples, i - 1)
             s == samples[i]
         IN  IF RLe0(s.R) THEN rest
             ELSE LET rate == RDiv(s.L, s.R)
                  IN  IF IsNaN(rate) \/ RLe0(rate) THEN rest
                      ELSE [sum |-> RAdd(rest.sum, rate), cnt |-> rest.cnt + 1]

EstimateCapacity(w) ==
    LET t == SumRates(w.samples, Len(w.samples))
    IN  IF t.cnt < 1 THEN [ok |-> FALSE, A |-> R(0)]
        ELSE [ok |-> TRUE, A |-> RDiv(t.sum, R(t.cnt))]

frame == Second \div 30

DefaultAiStep == Rat(1, 20)

DefaultMdRatio == Rat(1, 2)

NewNdtcController ==
    [cfg |-> [TFrame |-> frame,
              TSend |-> (frame * 7) \div 10,
              TRecv |-> (frame * 8) \div 10,
              AiStep |-> DefaultAiStep,
              MdRatio |-> DefaultMdRatio],
     capacityBps |-> Quanta(0),
     lastEstimatedBps |-> Quanta(0)]

SetConfig(c, cfg) == [c EXCEPT !.cfg = cfg]

alpha == Rat(1, 10)

\* A smoothing that is applied to an unset capacity as well.
OnCapacityEstimate_AlwaysSmooths(c, A) ==
    IF FLe0(A) THEN c
    ELSE [c EXCEPT !.lastEstimatedBps = A,
                   !.capacityBps =
                       FAdd(FMul(alpha, A),
                            FMul(RSub(R(1), alpha), c.capacityBps))]

OnCapacityEstimate(c, A) ==
    IF FLe0(A) THEN c
    ELSE IF FLe0(c.capacityBps)
         THEN [c EXCEPT !.lastEstimatedBps = A, !.capacityBps = A]
         ELSE [c EXCEPT !.lastEstimatedBps = A,
                        !.capacityBps =
                            FAdd(FMul(alpha, A),
                                 FMul(RSub(R(1), alpha), c.capacityBps))]

OnLossEvent_FixedHalf(c) ==
    IF FLe0(c.capacityBps) THEN c
    ELSE [c EXCEPT !.capacityBps = FMul(DefaultMdRatio, c.capacityBps)]

OnLossEvent(c) ==
    IF FLe0(c.capacityBps) THEN c
    ELSE LET md == IF RLe0(c.cfg.MdRatio) \/ RLe(R(1), c.cfg.MdRatio)
                   THEN DefaultMdRatio ELSE c.cfg.MdRatio
         IN  [c EXCEPT !.cfg.MdRatio = md,
                       !.capacityBps = FMul(md, c.capacityBps)]

OnNoLossPeriod(c) ==
    IF FLe0(c.capacityBps) THEN c
    ELSE LET ai == IF RLe0(c.cfg.AiStep) THEN DefaultAiStep
                   ELSE c.cfg.AiStep
         IN  [c EXCEPT !.cfg.AiStep = ai,
                       !.capacityBps = FMul(RAdd(R(1), ai), c.capacityBps)]

FallbackBps == 5000000

\* frameBits = int(Trecv.Seconds() * A); if frameBits < 1 { frameBits = 1 }
\* (a subnormal A times a Duration in seconds is below 1)
NdtcFrameBits(Trecv, A) ==
    LET conv == IF A.sub THEN {0} ELSE IntOfProd(<<Seconds(Trecv), A.v>>)
    IN  {IF frameBits < 1 THEN 1 ELSE frameBits : frameBits \in conv}

\* j = 1 + 0.1 * (rand.Float64()*2 - 1): the ends and the centre
Jitters == {Rat(9, 10), R(1), Rat(11, 10)}

\* A pacing centred on the frame period T_F instead of T_S.
NdtcNextFrameBudget_PacedOnFrame(c, j) ==
    LET A == IF FLe0(c.capacityBps) THEN Normal(R(FallbackBps))
             ELSE c.capacityBps
        Trecv == IF c.cfg.TRecv <= 0 THEN ((Second \div 30) * 8) \div 10
                 ELSE c.cfg.TRecv
    IN  {[kind |-> "ndtc", bits |-> frameBits,
          pacing |-> TruncProd(<<R(c.cfg.TFrame), j>>)] :
            frameBits \in NdtcFrameBits(Trecv, A)}

NdtcNextFrameBudget(c, j) ==
    LET A == IF FLe0(c.capacityBps) THEN Normal(R(FallbackBps))
             ELSE c.capacityBps
        Trecv == IF c.cfg.TRecv <= 0 THEN ((Second \div 30) * 8) \div 10
                 ELSE c.cfg.TRecv
        Tsend == IF c.cfg.TSend <= 0 THEN ((Second \div 30) * 7) \div 10
                 ELSE c.cfg.TSend
    IN  {[kind |-> "ndtc", bits |-> frameBits,
          pacing |-> TruncProd(<<R(Tsend), j>>)] :
            frameBits \in NdtcFrameBits(Trecv, A)}

(***************************************************************************)
(* Salsify (salsify_controller.go).  An observation carries Duration for   *)
(* SendEnd.Sub(SendStart), the only use the controllers make of the two    *)
(* instants.                                                               *)
(***************************************************************************)
DefaultSafetyMargin == Rat(7, 10)

DefaultWindowSize == 30

DefaultLatencyTarget == 200000000

NewSalsifyController(cfg) ==
    [cfg |-> [FrameInterval |-> IF cfg.FrameInterval <= 0 THEN Second \div 30
                                ELSE cfg.FrameInterval,
              SafetyMargin |-> IF RLe0(cfg.SafetyMargin)
                                  \/ RLt(R(1), cfg.SafetyMargin)
                               THEN DefaultSafetyMargin ELSE cfg.SafetyMargin,
              WindowSize |-> IF cfg.WindowSize <= 0 THEN DefaultWindowSize
                             ELSE cfg.WindowSize,
              LatencyTarget |-> IF cfg.LatencyTarget <= 0
                                THEN DefaultLatencyTarget
                                ELSE cfg.LatencyTarget],
     observations |-> <<>>,
     avgThroughputBitsPerSec |-> R(0),
     lossRate |-> R(0)]

\* The loop over the window: total bits, total duration (a duration <= 0
\* counts as one frame interval), number of observations with loss.  The
\* sums are exact, so they are taken over the two halves of a range.
RECURSIVE SalsifyRange(_, _, _, _)
SalsifyRange(obs, lo, hi, frameInterval) ==
    IF lo > hi
    THEN [totalBits |-> 0, totalDurationSec |-> R(0), lossCount |-> 0]
    ELSE IF lo = hi
    THEN LET o == obs[lo]
         IN  [totalBits |-> o.SentBits,
              totalDurationSec |-> IF o.Duration <= 0
                                   THEN Seconds(frameInterval)
                                   ELSE Seconds(o.Duration),
              lossCount |-> IF o.LossDetected THEN 1 ELSE 0]
    ELSE LET mid == (lo + hi) \div 2
             a == SalsifyRange(obs, lo, mid, frameInterval)
             b == SalsifyRange(obs, mid + 1, hi, frameInterval)
         IN  [totalBits |-> a.totalBits + b.totalBits,
              totalDurationSec |-> RAdd(a.totalDurationSec,
                                        b.totalDurationSec),
              lossCount |-> a.lossCount + b.lossCount]

SalsifyTotals(obs, i, frameInterval) == SalsifyRange(obs, 1, i, frameInterval)

SalsifyUpdateStats(c, obs) ==
    LET window == LastN(Append(c.observations, obs), c.cfg.WindowSize)
        t == SalsifyTotals(window, Len(window), c.cfg.FrameInterval)
    IN  [c EXCEPT
            !.observations = window,
            !.avgThroughputBitsPerSec =
                IF RPos(t.totalDurationSec)
                THEN RDiv(R(t.totalBits), t.totalDurationSec) ELSE @,
            !.lossRate =
                IF Len(window) > 0 THEN Rat(t.lossCount, Len(window)) ELSE @]

InitialThroughput == 500000

LossThreshold == Rat(2, 100)

MinScale == Rat(3, 10)

MinBudget == 10000

MaxBudget == 5000000

\* if budget < 10_000 {..}; if budget > 5_000_000 {..}; return int(budget).
\* floor is the floor of a budget that is a number: budget < 10000 iff
\* floor < 10000, and a budget above 5000000 has floor >= 5000000 and is
\* returned as 5000000.  A NaN budget passes both tests.
SalsifyClamp(floor) ==
    IF floor < MinBudget THEN MinBudget
    ELSE IF floor >= MaxBudget THEN MaxBudget ELSE floor

SalsifyBudgetInt(factors) ==
    IF \E i \in 1..Len(factors) : IsNaN(factors[i])
    THEN IntOfProd(factors)
    ELSE {SalsifyClamp(TruncProd(factors))}

SalsifyScale(lossRate) ==
    LET over == RSub(lossRate, LossThreshold)
        scale == RSub(R(1), RMul(over, R(10)))
    IN  IF RLt(scale, MinScale) THEN MinScale ELSE scale

SalsifyNextFrameBudget(c) ==
    LET throughput == IF RLe0(c.avgThroughputBitsPerSec)
                      THEN R(InitialThroughput)
                      ELSE c.avgThroughputBitsPerSec
        factors == <<throughput, Seconds(c.cfg.FrameInterval),
                     c.cfg.SafetyMargin>>
        scaled == IF RLt(LossThreshold, c.lossRate)
                  THEN Append(factors, SalsifyScale(c.lossRate))
                  ELSE factors
    IN  {[kind |-> "salsify", bits |-> b] : b \in SalsifyBudgetInt(scaled)}

(***************************************************************************)
(* BurstRTC (burst_controller.go).                                         *)
(***************************************************************************)
DefaultBurstFraction == Rat(3, 10)

NewBurstController(cfg) ==
    [cfg |-> [FrameInterval |-> IF cfg.FrameInterval <= 0 THEN Second \div 30
                                ELSE cfg.FrameInterval,
              SafetyMargin |-> IF RLe0(cfg.SafetyMargin)
                               THEN DefaultSafetyMargin ELSE cfg.SafetyMargin,
              WindowSize |-> IF cfg.WindowSize <= 0 THEN DefaultWindowSize
                             ELSE cfg.WindowSize,
              BurstFraction |-> IF RLe0(cfg.BurstFraction)
                                THEN DefaultBurstFraction
                                ELSE cfg.BurstFraction],
     observations |-> <<>>,
     frameSizeMean |-> R(0),
     frameSizeVar |-> R(0),
     availableBps |-> R(0),
     totalBits |-> 0,
     totalDuration |-> 0]

RECURSIVE SumBits(_, _)
SumBits(obs, i) == IF i = 0 THEN 0 ELSE SumBits(obs, i - 1) + obs[i].SentBits

RECURSIVE VarianceSum(_, _, _)
VarianceSum(obs, i, mean) ==
    IF i = 0 THEN R(0)
    ELSE LET diff == RSub(R(obs[i].SentBits), mean)
         IN  RAdd(VarianceSum(obs, i - 1, mean), RMul(diff, diff))

\* mutant: the variance divided by n, not n - 1
updateFrameSizeStats_PopulationVariance(c) ==
    LET n == Len(c.observations)
        mean == Rat(SumBits(c.observations, n), n)
    IN  IF n = 0 THEN c
        ELSE [c EXCEPT
                !.frameSizeMean = mean,
                !.frameSizeVar =
                    RDiv(VarianceSum(c.observations, n, mean), R(n))]

updateFrameSizeStats(c) ==
    LET n == Len(c.observations)
        mean == Rat(SumBits(c.observations, n), n)
    IN  IF n = 0 THEN c
        ELSE [c EXCEPT
                !.frameSizeMean = mean,
                !.frameSizeVar =
                    IF n > 1
                    THEN RDiv(VarianceSum(c.observations, n, mean), R(n - 1))
                    ELSE R(0)]

BurstUpdateStats(c, obs) ==
    IF obs.SentBits <= 0 THEN c
    ELSE LET appended == Append(c.observations, obs)
             window == IF Len(appended) > c.cfg.WindowSize
                       THEN Tail(appended) ELSE appended
             totalBits == c.totalBits + obs.SentBits
             totalDuration == IF obs.Duration > 0
                              THEN c.totalDuration + obs.Duration
                              ELSE c.totalDuration
             s == updateFrameSizeStats([c EXCEPT !.observations = window])
         IN  [s EXCEPT
                !.totalBits = totalBits,
                !.totalDuration = totalDuration,
                !.availableBps =
                    IF totalDuration > 0
                    THEN RDiv(R(totalBits), Seconds(totalDuration))
                    ELSE R(FallbackBps)]

CvThreshold == Rat(1, 2)

BurstPenalty == Rat(7, 10)

\* math.Sqrt(var) / mean > 0.5, for var > 0 and mean > 0, is
\* var > (0.5 * mean)^2
HighVariation(c) ==
    /\ RPos(c.frameSizeVar)
    /\ RPos(c.frameSizeMean)
    /\ LET half == RMul(CvThreshold, c.frameSizeMean)
       IN  RLt(RMul(half, half), c.frameSizeVar)

BurstNextFrameBudget(c) ==
    LET A == IF RLe0(c.availableBps) THEN R(FallbackBps) ELSE c.availableBps
        conv == IntOfProd(<<A, Seconds(c.cfg.FrameInterval),
                            c.cfg.SafetyMargin>>)
    IN  {[kind |-> "burst",
          bits |-> IF targetBits < 1 THEN 1 ELSE targetBits,
          fraction |-> IF HighVariation(c)
                       THEN RMul(c.cfg.BurstFraction, BurstPenalty)
                       ELSE c.cfg.BurstFraction] : targetBits \in conv}

(***************************************************************************)
(* The controllers as a state machine.  One of the three servers runs      *)
(* (ctrlKind); its configuration is the constructor's argument, chosen at  *)
(* Init.  Every operation of the controller's interface is an action.      *)
(***************************************************************************)
ProgramSalsifyConfig ==
    [FrameInterval |-> Second \div 30, LatencyTarget |-> 0,
     SafetyMargin |-> Rat(7, 10), WindowSize |-> 30]

ProgramBurstConfig ==
    [FrameInterval |-> Second \div 30, SafetyMargin |-> Rat(7, 10),
     WindowSize |-> 30, BurstFraction |-> Rat(3, 10)]

SalsifyConfigs ==
    {   ProgramSalsifyConfig,
        [FrameInterval |-> 0, LatencyTarget |-> 0,
         SafetyMargin |-> Rat(3, 2), WindowSize |-> 0],
        [FrameInterval |-> 40000000, LatencyTarget |-> 100000000,
         SafetyMargin |-> R(1), WindowSize |-> 2],
        [FrameInterval |-> 0, LatencyTarget |-> 0,
         SafetyMargin |-> NaN, WindowSize |-> 2]
    }

BurstConfigs ==
    {   ProgramBurstConfig,
        [FrameInterval |-> 0, SafetyMargin |-> R(0),
         WindowSize |-> 0, BurstFraction |-> R(0)],
        [FrameInterval |-> 40000000, SafetyMargin |-> Rat(1, 2),
         WindowSize |-> 2, BurstFraction |-> R(1)],
        [FrameInterval |-> 40000000, SafetyMargin |-> NaN,
         WindowSize |-> 2, BurstFraction |-> Rat(3, 2)]
    }

MaxCounts == {0, 2, 120}

NdtcConfigs ==
    {   [TFrame |-> 40000000, TSend |-> 28000000, TRecv |-> 32000000,
         AiStep |-> Rat(1, 2), MdRatio |-> Rat(1, 4)],
        [TFrame |-> 0, TSend |-> 0, TRecv |-> 0,
         AiStep |-> R(0), MdRatio |-> R(0)],
        [TFrame |-> 40000000, TSend |-> -1, TRecv |-> 1,
         AiStep |-> Rat(-1, 2), MdRatio |-> Rat(3, 2)]
    }

\* arguments of OnCapacityEstimate: 0, 5e-324, 1.5e-323, 4e6, NaN
Estimates ==
    {Quanta(0), Quanta(1), Quanta(3), Normal(R(4000000)), Normal(NaN)}

\* FdaceSample{FrameID, S: sendDur, R: sendDur, L: sentBitsForFrame}
FdaceSamples(id) ==
    {[FrameID |-> id, S |-> d, R |-> d, L |-> R(l)] :
        d \in {R(0), Rat(1, 100)}, l \in {0, 8000, 20000}}

\* An observation without duration is offered to a controller whose frame
\* interval is a whole number of milliseconds.
SalsifyObservations(id, frameInterval) ==
    {[FrameID |-> id, SentBits |-> b, Duration |-> d, LossDetected |-> l] :
        b \in {-8, 0, 20000},
        d \in {x \in {0, 100000, 10000000} :
                    x > 0 \/ frameInterval % 1000000 = 0},
        l \in BOOLEAN}

BurstObservations(id) ==
    {[FrameID |-> id, SentBits |-> b, Duration |-> d] :
        b \in {-8, 0, 8000, 20000}, d \in {0, 10000000, 20000000}}

NoBudget == [kind |-> "none"]

(***************************************************************************)
(* Arbitrary input: the payloads the track may deliver.                    *)
(***************************************************************************)
Payloads ==
    {   <<>>,                          \* empty payload
        <<101>>,                       \* 65: single NAL, type 5, header only
        <<65, 170>>,                   \* 41 AA: single NAL, type 1
        <<103, 0, 0, 0, 1>>,           \* 67 00 00 00 01: single NAL, type 7
        <<24>>,                        \* 18: STAP-A without tuples
        <<24, 0, 1, 170>>,             \* 18 | 0001 AA
        <<24, 0, 3, 170, 187, 204, 0, 2, 221, 238>>,
                                       \* 18 | 0003 AA BB CC | 0002 DD EE
        <<24, 0, 1, 170, 0, 2, 187>>,  \* second tuple overruns
        <<24, 0, 1, 170, 0>>,          \* second length incomplete
        <<24, 0, 0, 0, 1, 101>>,       \* 18 | 0000 | 0001 65
        <<124>>,                       \* 7C: FU-A without FU header
        <<124, 133, 170>>,             \* 7C 85 AA: start, type 5
        <<124, 5, 187>>,               \* 7C 05 BB: continuation, type 5
        <<124, 69, 204>>,              \* 7C 45 CC: end, type 5
        <<124, 69>>,                   \* 7C 45: end, type 5, no data
        <<124, 197, 221>>,             \* 7C C5 DD: start and end, type 5
        <<124, 1, 187>>,               \* 7C 01 BB: continuation, type 1
        <<92, 129>>,                   \* 5C 81: start, type 1, NRI 2, no data
        <<30, 170>>,                   \* 1E AA: unsupported type 30
        <<0, 170>>                     \* 00 AA: unsupported type 0
    }

InitDepack ==
    /\ file = <<>>
    /\ fuBuffer = NilBuffer
    /\ fuNALType = 0
    /\ frameID = 0
    /\ packets = <<>>
    /\ running = TRUE
    /\ sent = <<>>
    /\ net = <<>>

\* No server runs while the receiver is examined.
CtrlIdle ==
    /\ ctrlKind = "none"
    /\ ndtc = NewNdtcController
    /\ fdaceWin = NewFdaceWindow(DefaultMaxCount)
    /\ salsify = NewSalsifyController(ProgramSalsifyConfig)
    /\ burst = NewBurstController(ProgramBurstConfig)
    /\ obsLog = <<>>
    /\ budget = NoBudget
    /\ ctrlOps = 0

\* Nothing but the part under examination runs: no sender process, no timed
\* receive loop, no metrics writer, no encoder update.
SenderIdle == sender = [kind |-> "none"]
RecvLoopIdle == recvLoop = [pc |-> "none"]
MetricsIdle == metrics = [frameID |-> 0, rows |-> <<>>]
EncIdle == enc = [calls |-> 0]
AuxIdle == SenderIdle /\ RecvLoopIdle /\ MetricsIdle /\ EncIdle

Init == InitDepack /\ CtrlIdle /\ AuxIdle

ReadAny ==
    /\ Len(packets) < MaxPackets
    /\ \E p \in Payloads : ReadRTP(p)
    /\ UNCHANGED <<sent, net>>
    /\ UNCHANGED ctrlVars
    /\ UNCHANGED auxVars

NextDepack == ReadAny \/ StopLoop

SpecDepack == Init /\ [][NextDepack]_vars

(***************************************************************************)
(* Lossless transport: a sender packetises NAL units as RFC 6184 Single    *)
(* NAL, STAP-A or FU-A payloads; the track delivers them in order, without *)
(* loss or duplication.  The receiver is the only consumer of the FIFO, so *)
(* the sender is let to packetise the next unit once the FIFO has drained. *)
(***************************************************************************)
NalSet ==
    {   <<101>>,                \* 65: type 5, header only
        <<65, 170>>,            \* 41 AA: type 1, NRI 2
        <<103, 0, 0, 0, 1>>,    \* 67 00 00 00 01: type 7, holds a start code
        <<6, 0, 0, 1>>          \* 06 00 00 01: type 6, NRI 0
    }

U16(n) == <<n \div 256, n % 256>>

SingleNalPayload(nal) == nal

RECURSIVE StapTuples(_)
StapTuples(nals) ==
    IF nals = <<>> THEN <<>>
    ELSE U16(Len(Head(nals))) \o Head(nals) \o StapTuples(Tail(nals))

StapAPayload(header, nals) == <<header>> \o StapTuples(nals)

\* The FU-A fragments of nal, its body cut at the 0-based positions cuts
\* (non-decreasing): the first carries the start bit, the last the end bit.
FuAPayloads(nal, cuts) ==
    LET body == Drop(nal, 1)
        k == Len(cuts) + 1
        lo(j) == IF j = 1 THEN 0 ELSE cuts[j - 1]
        hi(j) == IF j = k THEN Len(body) ELSE cuts[j]
        ind == HighBits(nal[1]) + 28
        fuh(j) == (IF j = 1 THEN 128 ELSE 0) + (IF j = k THEN 64 ELSE 0)
                      + NalTypeOf(nal[1])
    IN  [j \in 1..k |-> <<ind, fuh(j)>> \o SubSeq(body, lo(j) + 1, hi(j))]

CutsOf(nal) ==
    LET L == Len(nal) - 1
    IN  {<<c>> : c \in 0..L}
            \cup {<<cd[1], cd[2]>> :
                      cd \in {x \in (0..L) \X (0..L) : x[1] <= x[2]}}

SendSingle ==
    /\ net = <<>>
    /\ \E nal \in NalSet :
        /\ NalTypeOf(nal[1]) >= 1 /\ NalTypeOf(nal[1]) <= 23
        /\ Len(sent) + 1 <= MaxNals
        /\ sent' = Append(sent, nal)
        /\ net' = <<SingleNalPayload(nal)>>
    /\ UNCHANGED depackVars
    /\ UNCHANGED ctrlVars
    /\ UNCHANGED auxVars

SendStapA ==
    /\ net = <<>>
    /\ \E header \in {24, 120} :
        \E nals \in {<<a>> : a \in NalSet}
                        \cup {<<a, b>> : a \in NalSet, b \in NalSet} :
            /\ Len(sent) + Len(nals) <= MaxNals
            /\ sent' = sent \o nals
            /\ net' = <<StapAPayload(header, nals)>>
    /\ UNCHANGED depackVars
    /\ UNCHANGED ctrlVars
    /\ UNCHANGED auxVars

SendFuA ==
    /\ net = <<>>
    /\ \E nal \in NalSet :
        \E cuts \in CutsOf(nal) :
            /\ Len(sent) + 1 <= MaxNals
            /\ sent' = Append(sent, nal)
            /\ net' = FuAPayloads(nal, cuts)
    /\ UNCHANGED depackVars
    /\ UNCHANGED ctrlVars
    /\ UNCHANGED auxVars

Deliver ==
    /\ net # <<>>
    /\ ReadRTP(Head(net))
    /\ net' = Tail(net)
    /\ UNCHANGED sent
    /\ UNCHANGED ctrlVars
    /\ UNCHANGED auxVars

NextLossless == SendSingle \/ SendStapA \/ SendFuA \/ Deliver \/ StopLoop

SpecLossless == Init /\ [][NextLossless]_vars

(***************************************************************************)
(* The same sender over the track as it is: RTP over UDP, read packet by   *)
(* packet with track.ReadRTP, so a packet in flight may be lost or may be  *)
(* overtaken by the one behind it.                                         *)
(***************************************************************************)
Lose ==
    /\ net # <<>>
    /\ net' = Tail(net)
    /\ UNCHANGED <<depackVars, sent>>
    /\ UNCHANGED ctrlVars
    /\ UNCHANGED auxVars

Overtake ==
    /\ Len(net) >= 2
    /\ net' = <<net[2], net[1]>> \o SubSeq(net, 3, Len(net))
    /\ UNCHANGED <<depackVars, sent>>
    /\ UNCHANGED ctrlVars
    /\ UNCHANGED auxVars

NextLossy == NextLossless \/ Lose \/ Overtake

SpecLossy == Init /\ [][NextLossy]_vars

(***************************************************************************)
(* The controllers as a state machine: actions.                            *)
(***************************************************************************)
InitCtrl ==
    /\ InitDepack
    /\ AuxIdle
    /\ ctrlKind \in {"ndtc", "salsify", "burst"}
    /\ ndtc = NewNdtcController
    /\ fdaceWin \in {NewFdaceWindow(m) :
                        m \in IF ctrlKind = "ndtc" THEN MaxCounts
                              ELSE {DefaultMaxCount}}
    /\ salsify \in {NewSalsifyController(c) :
                        c \in IF ctrlKind = "salsify" THEN SalsifyConfigs
                              ELSE {ProgramSalsifyConfig}}
    /\ burst \in {NewBurstController(c) :
                        c \in IF ctrlKind = "burst" THEN BurstConfigs
                              ELSE {ProgramBurstConfig}}
    /\ obsLog = <<>>
    /\ budget = NoBudget
    /\ ctrlOps = 0

NdtcSetConfig ==
    /\ ctrlKind = "ndtc" /\ ctrlOps < MaxCtrlOps
    /\ \E cfg \in NdtcConfigs : ndtc' = SetConfig(ndtc, cfg)
    /\ ctrlOps' = ctrlOps + 1
    /\ UNCHANGED <<ctrlKind, fdaceWin, salsify, burst, obsLog, budget>>
    /\ UNCHANGED <<depackVars, sent, net>>
    /\ UNCHANGED auxVars

NdtcOnCapacityEstimate ==
    /\ ctrlKind = "ndtc" /\ ctrlOps < MaxCtrlOps
    /\ \E A \in Estimates : ndtc' = OnCapacityEstimate(ndtc, A)
    /\ ctrlOps' = ctrlOps + 1
    /\ UNCHANGED <<ctrlKind, fdaceWin, salsify, burst, obsLog, budget>>
    /\ UNCHANGED <<depackVars, sent, net>>
    /\ UNCHANGED auxVars

NdtcOnLossEvent ==
    /\ ctrlKind = "ndtc" /\ ctrlOps < MaxCtrlOps
    /\ ndtc' = OnLossEvent(ndtc)
    /\ ctrlOps' = ctrlOps + 1
    /\ UNCHANGED <<ctrlKind, fdaceWin, salsify, burst, obsLog, budget>>
    /\ UNCHANGED <<depackVars, sent, net>>
    /\ UNCHANGED auxVars

NdtcOnNoLossPeriod ==
    /\ ctrlKind = "ndtc" /\ ctrlOps < MaxCtrlOps
    /\ ndtc' = OnNoLossPeriod(ndtc)
    /\ ctrlOps' = ctrlOps + 1
    /\ UNCHANGED <<ctrlKind, fdaceWin, salsify, burst, obsLog, budget>>
    /\ UNCHANGED <<depackVars, sent, net>>
    /\ UNCHANGED auxVars

\* server_ndtc.go, after a frame is sent: UpdateSample, EstimateCapacity and,
\* if an estimate exists, OnCapacityEstimate.
NdtcFeedback ==
    /\ ctrlKind = "ndtc" /\ ctrlOps < MaxCtrlOps
    /\ \E s \in FdaceSamples(Len(obsLog) + 1) :
        LET w == UpdateSample(fdaceWin, s)
            e == EstimateCapacity(w)
        IN  /\ fdaceWin' = w
            /\ ndtc' = IF e.ok THEN OnCapacityEstimate(ndtc, Normal(e.A))
                       ELSE ndtc
            /\ obsLog' = Append(obsLog, s)
    /\ ctrlOps' = ctrlOps + 1
    /\ UNCHANGED <<ctrlKind, salsify, burst, budget>>
    /\ UNCHANGED <<depackVars, sent, net>>
    /\ UNCHANGED auxVars

NdtcBudget ==
    /\ ctrlKind = "ndtc"
    /\ \E j \in Jitters : budget' \in NdtcNextFrameBudget(ndtc, j)
    /\ UNCHANGED <<ctrlKind, ndtc, fdaceWin, salsify, burst, obsLog, ctrlOps>>
    /\ UNCHANGED <<depackVars, sent, net>>
    /\ UNCHANGED auxVars

SalsifyUpdate ==
    /\ ctrlKind = "salsify" /\ ctrlOps < MaxCtrlOps
    /\ \E o \in SalsifyObservations(Len(obsLog) + 1,
                                    salsify.cfg.FrameInterval) :
        /\ salsify' = SalsifyUpdateStats(salsify, o)
        /\ obsLog' = Append(obsLog, o)
    /\ ctrlOps' = ctrlOps + 1
    /\ UNCHANGED <<ctrlKind, ndtc, fdaceWin, burst, budget>>
    /\ UNCHANGED <<depackVars, sent, net>>
    /\ UNCHANGED auxVars

SalsifyBudget ==
    /\ ctrlKind = "salsify"
    /\ budget' \in SalsifyNextFrameBudget(salsify)
    /\ UNCHANGED <<ctrlKind, ndtc, fdaceWin, salsify, burst, obsLog, ctrlOps>>
    /\ UNCHANGED <<depackVars, sent, net>>
    /\ UNCHANGED auxVars

BurstUpdate ==
    /\ ctrlKind = "burst" /\ ctrlOps < MaxCtrlOps
    /\ \E o \in BurstObservations(Len(obsLog) + 1) :
        /\ burst' = BurstUpdateStats(burst, o)
        /\ obsLog' = Append(obsLog, o)
    /\ ctrlOps' = ctrlOps + 1
    /\ UNCHANGED <<ctrlKind, ndtc, fdaceWin, salsify, budget>>
    /\ UNCHANGED <<depackVars, sent, net>>
    /\ UNCHANGED auxVars

BurstBudget ==
    /\ ctrlKind = "burst"
    /\ budget' \in BurstNextFrameBudget(burst)
    /\ UNCHANGED <<ctrlKind, ndtc, fdaceWin, salsify, burst, obsLog, ctrlOps>>
    /\ UNCHANGED <<depackVars, sent, net>>
    /\ UNCHANGED auxVars

NextCtrl ==
    \/ NdtcSetConfig \/ NdtcOnCapacityEstimate \/ NdtcOnLossEvent
    \/ NdtcOnNoLossPeriod \/ NdtcFeedback \/ NdtcBudget
    \/ SalsifyUpdate \/ SalsifyBudget
    \/ BurstUpdate \/ BurstBudget

SpecCtrl == InitCtrl /\ [][NextCtrl]_vars

(***************************************************************************)
(* A Salsify controller with a filled window: NextFrameBudget applied to   *)
(* the states UpdateStats leaves after a run of equal frames of which the  *)
(* first few saw loss.                                                     *)
(***************************************************************************)
WarmFrames == 100       \* observations in the window
MaxLossy == 15          \* of which at most this many saw loss

WideWindowConfig(margin) ==
    [FrameInterval |-> Second \div 30, LatencyTarget |-> 0,
     SafetyMargin |-> margin, WindowSize |-> WarmFrames]

\* The window after n calls of UpdateStats (n <= WindowSize): frames of
\* sentBits bits sent in duration ns each, the first lossy of them with
\* LossDetected.
WarmObservations(n, lossy, sentBits, duration) ==
    [i \in 1..n |-> [FrameID |-> i, SentBits |-> sentBits,
                     Duration |-> duration, LossDetected |-> i <= lossy]]

\* The controller after those n >= 1 calls.  UpdateStats recomputes both
\* statistics from the whole window, so the state is the one the last call
\* leaves on the window of the first n - 1.
SalsifyWarm(cfg, n, lossy, sentBits, duration) ==
    LET frames == WarmObservations(n, lossy, sentBits, duration)
    IN  SalsifyUpdateStats(
            [NewSalsifyController(cfg) EXCEPT
                !.observations = SubSeq(frames, 1, n - 1)],
            frames[n])

InitSalsifyWindow ==
    /\ InitDepack
    /\ AuxIdle
    /\ ctrlKind = "salsify"
    /\ ndtc = NewNdtcController
    /\ fdaceWin = NewFdaceWindow(DefaultMaxCount)
    /\ burst = NewBurstController(ProgramBurstConfig)
    /\ salsify \in {SalsifyWarm(WideWindowConfig(m), WarmFrames, k, b,
                                10000000) :
                       m \in {Rat(7, 10), Rat(1, 2)}, k \in 0..MaxLossy,
                       b \in {20000, 40000}}
    /\ obsLog = salsify.observations
    /\ budget = NoBudget
    /\ ctrlOps = 0

NextSalsifyWindow == SalsifyBudget

SpecSalsifyWindow == InitSalsifyWindow /\ [][NextSalsifyWindow]_vars

(***************************************************************************)
(* A BurstRTC controller after a few frames of differing sizes:            *)
(* NextFrameBudget applied to the states UpdateStats leaves.               *)
(***************************************************************************)
MaxWindowFrames == 3    \* observations recorded before the budget is asked

\* sentBitsForFrame of the frames sent
FrameSizes == {4000, 8000, 10000, 16000}

FrameSizeSeqs ==
    UNION {[1..n -> FrameSizes] : n \in 0..MaxWindowFrames}

\* BurstObservation of frame i: sizes[i] bits sent in 10 ms
BurstObservationOf(sizes, i) ==
    [FrameID |-> i, SentBits |-> sizes[i], Duration |-> 10000000]

\* the controller after UpdateStats was called for frames 1..i
RECURSIVE BurstAfter(_, _, _)
BurstAfter(cfg, sizes, i) ==
    IF i = 0 THEN NewBurstController(cfg)
    ELSE BurstUpdateStats(BurstAfter(cfg, sizes, i - 1),
                          BurstObservationOf(sizes, i))

InitBurstWindow ==
    /\ InitDepack
    /\ AuxIdle
    /\ ctrlKind = "burst"
    /\ ndtc = NewNdtcController
    /\ fdaceWin = NewFdaceWindow(DefaultMaxCount)
    /\ salsify = NewSalsifyController(ProgramSalsifyConfig)
    /\ \E cfg \in BurstConfigs, sizes \in FrameSizeSeqs :
        /\ burst = BurstAfter(cfg, sizes, Len(sizes))
        /\ obsLog = [i \in 1..Len(sizes) |-> BurstObservationOf(sizes, i)]
    /\ budget = NoBudget
    /\ ctrlOps = 0

NextBurstWindow == BurstBudget

SpecBurstWindow == InitBurstWindow /\ [][NextBurstWindow]_vars

(***************************************************************************)
(* The sender process: main, the connection-state handlers and the send    *)
(* loop goroutine (server_ndtc.go, server_salsify.go, server_burst.go).    *)
(*                                                                         *)
(* loopPc is the position of the send loop:                                *)
(*   "wait"    at the loop head, waiting for the ticker (and, where the    *)
(*             loop has one, the cancellation context)                     *)
(*   "recheck" Salsify's second look at the context after a tick           *)
(*   "read"    about to call inputFormatContext.ReadFrame                  *)
(*   "encode"  a frame was decoded: budget, scaling, encoding              *)
(*   "packet"  in the loop that hands the encoded packets to WriteSample   *)
(*   "exited"  the function returned; "killed" the process ended first     *)
(* mainPc is the position of main: "select", "closing" (a case was taken,  *)
(* peerConnection.Close called), "freed" (the deferred freeVideoCoding     *)
(* ran), "exited".                                                         *)
(***************************************************************************)
MaxFrames == 2      \* frames in the input file
MaxSamples == 3     \* WriteSample calls followed
MaxFrameID == 2     \* frames decoded in one run (a looped input repeats)

SenderKinds == {"ndtc", "salsify", "burst"}
PeerStates == {"connected", "disconnected", "failed", "closed"}

\* The states on which the NDTC and Salsify handlers call
\* connectionClosedCancel().
DownStates == {"disconnected", "failed", "closed"}

\* server_ndtc.go and server_salsify.go create connectionClosedCtx and hand
\* it to the send loop; server_burst.go has no such context: its handlers
\* only log, and writeVideoToTrackBurst takes no context.
HasCancelToken(kind) == kind \in {"ndtc", "salsify"}

\* log: the per-frame steps taken, in order, each with the frame's id:
\* "inc" (frameID++), "budget" (sendStart and NextFrameBudget), "sample"
\* (a packet accepted by WriteSample), "sendEnd" (sendEnd taken after the
\* packet loop), "record" (the controller's update), "meta" (a row of frame_metadata.csv), "burstMetric"
\* (a row of burst_server_metrics.csv).
NewSender(kind, loopVideo, frames, sessionDir) ==
    [kind |-> kind, loopVideo |-> loopVideo, frames |-> frames,
     sessionDir |-> sessionDir, frameID |-> 0, log |-> <<>>,
     remaining |-> frames, peer |-> "connected", peerDown |-> FALSE,
     cancelled |-> FALSE, loopPc |-> "wait", done |-> FALSE,
     signalled |-> FALSE, mainPc |-> "select", mainCase |-> "none",
     codecFreed |-> FALSE, samples |-> 0, writeFailed |-> FALSE,
     afterFail |-> 0]

InitSender ==
    /\ InitDepack
    /\ CtrlIdle
    /\ RecvLoopIdle /\ MetricsIdle /\ EncIdle
    /\ sender \in {NewSender(k, l, n, d) :
                      k \in SenderKinds, l \in BOOLEAN, n \in 1..MaxFrames,
                      d \in BOOLEAN}

SenderFrame == UNCHANGED <<depackVars, sent, net, ctrlVars, recvLoop,
                           metrics, enc>>

ProcessRunning == sender.mainPc # "exited"
LoopAt(pc) == ProcessRunning /\ sender.loopPc = pc
LoopRunning == sender.loopPc \notin {"exited", "killed"}

\* select { case done <- true: default: } on the channel of capacity 1,
\* followed by return (or break out of the outer loop).
SignalAndExit(s) ==
    [s EXCEPT !.done = TRUE, !.signalled = TRUE, !.loopPc = "exited"]

\* OnICEConnectionStateChange / OnConnectionStateChange callback.
PeerStateChange ==
    /\ ProcessRunning
    /\ \E st \in PeerStates :
          sender' = [sender EXCEPT
                       !.peer = st,
                       !.peerDown = @ \/ st \in DownStates,
                       !.cancelled = @ \/ (st \in DownStates
                                           /\ HasCancelToken(sender.kind))]
    /\ SenderFrame

\* The ticker case of the select at the loop head (for range ticker.C in
\* the Burst loop).  When the context is done too, Go's select picks one of
\* the ready cases at random, so the tick can win.
LoopTick ==
    /\ LoopAt("wait")
    /\ sender' = [sender EXCEPT
                    !.loopPc = IF sender.kind = "salsify" THEN "recheck"
                               ELSE "read"]
    /\ SenderFrame

\* The ctx.Done() case of the select at the loop head.
LoopObserveCancel ==
    /\ LoopAt("wait")
    /\ HasCancelToken(sender.kind) /\ sender.cancelled
    /\ sender' = SignalAndExit(sender)
    /\ SenderFrame

\* Salsify only: select { case <-ctx.Done(): ...; default: } after the tick.
LoopRecheck ==
    /\ LoopAt("recheck")
    /\ sender' = IF sender.cancelled THEN SignalAndExit(sender)
                 ELSE [sender EXCEPT !.loopPc = "read"]
    /\ SenderFrame

\* ReadFrame returned a video packet and the decoder produced a frame.
LoopReadFrame ==
    /\ LoopAt("read") /\ sender.remaining > 0
    /\ sender.frameID < MaxFrameID
    /\ sender' = [sender EXCEPT !.remaining = @ - 1, !.loopPc = "encode"]
    /\ SenderFrame

\* ReadFrame returned EOF: seek to the start when looping (a failed seek
\* breaks out without signalling), else signal completion and break.
LoopEof ==
    /\ LoopAt("read") /\ sender.remaining = 0
    /\ \E seekOk \in BOOLEAN :
          sender' = IF sender.loopVideo
                    THEN IF seekOk
                         THEN [sender EXCEPT !.remaining = sender.frames,
                                             !.loopPc = "wait"]
                         ELSE [sender EXCEPT !.loopPc = "exited"]
                    ELSE SignalAndExit(sender)
    /\ SenderFrame

\* ReadFrame failed otherwise, the packet is of another stream, or the
\* decoder wants more input: continue with the next tick.
LoopSkip ==
    /\ LoopAt("read")
    /\ sender' = [sender EXCEPT !.loopPc = "wait"]
    /\ SenderFrame

\* What the loop does with the budget before the frame's packets are sent:
\* the NDTC loop calls updateEncoderForBudget, the Salsify loop selects
\* among the candidates it encoded; the Burst loop only logs the budget
\* (updateEncoderForBudgetBurst has no caller).
BudgetApplied(kind, encoded, k) ==
    IF kind = "ndtc" \/ (kind = "salsify" /\ encoded)
    THEN <<<<"apply", k>>>> ELSE <<>>

\* mutant: the observation is recorded when the frame is handed to the
\* encoder, before its packets are written
LoopEncode_RecordsEarly ==
    /\ LoopAt("encode")
    /\ \E ok \in BOOLEAN :
          sender' = [sender EXCEPT
                       !.frameID = @ + 1,
                       !.log = @ \o <<<<"inc", sender.frameID + 1>>,
                                      <<"budget", sender.frameID + 1>>,
                                      <<"record", sender.frameID + 1>>>>
                                 \o BudgetApplied(sender.kind, ok,
                                                  sender.frameID + 1),
                       !.loopPc = IF ok THEN "packet" ELSE "wait"]
    /\ SenderFrame

\* frameID++, sendStart, NextFrameBudget, the use made of the budget, then
\* scaling and encoding of the decoded frame; a scaling or encoding error
\* drops the frame (continue).
LoopEncode ==
    /\ LoopAt("encode")
    /\ \E ok \in BOOLEAN :
          sender' = [sender EXCEPT
                       !.frameID = @ + 1,
                       !.log = @ \o <<<<"inc", sender.frameID + 1>>,
                                      <<"budget", sender.frameID + 1>>>>
                                 \o BudgetApplied(sender.kind, ok,
                                                  sender.frameID + 1),
                       !.loopPc = IF ok THEN "packet" ELSE "wait"]
    /\ SenderFrame

\* track.WriteSample on the next encoded packet.  On an error the NDTC and
\* Salsify loops signal done and return; the Burst loop logs and continues
\* with the next packet.
LoopWriteSample ==
    /\ LoopAt("packet") /\ sender.samples < MaxSamples
    /\ \E ok \in BOOLEAN :
          LET s == [sender EXCEPT
                      !.samples = @ + 1,
                      !.log = IF ok THEN Append(@, <<"sample", sender.frameID>>)
                              ELSE @,
                      !.afterFail = IF sender.writeFailed THEN @ + 1 ELSE @,
                      !.writeFailed = @ \/ ~ok]
          IN  sender' = IF ~ok /\ sender.kind # "burst"
                        THEN SignalAndExit(s)
                        ELSE s
    /\ SenderFrame

\* No more packets for this frame: sendEnd, the controller's update
\* (UpdateSample / UpdateStats), the row of the session's CSV, and back to
\* the loop head.  The NDTC and Salsify loops write frame_metadata.csv; the
\* Burst loop has no FrameMetadataWriter and writes
\* burst_server_metrics.csv.
LoopFrameDone ==
    /\ LoopAt("packet")
    /\ sender' = [sender EXCEPT
                    !.log = @ \o <<<<"sendEnd", sender.frameID>>,
                                    <<"record", sender.frameID>>>>
                              \o (IF ~sender.sessionDir THEN <<>>
                                  ELSE IF sender.kind = "burst"
                                  THEN <<<<"burstMetric", sender.frameID>>>>
                                  ELSE <<<<"meta", sender.frameID>>>>),
                    !.loopPc = "wait"]
    /\ SenderFrame

\* main's select takes <-videoDone or <-connectionClosedCtx.Done() (the
\* latter exists in the NDTC and Salsify servers only) and closes the peer
\* connection.
MainSelect ==
    /\ sender.mainPc = "select"
    /\ \E c \in {"videoDone", "ctx"} :
          /\ c = "videoDone" => sender.done
          /\ c = "ctx" => HasCancelToken(sender.kind) /\ sender.cancelled
          /\ sender' = [sender EXCEPT
                          !.mainPc = "closing", !.mainCase = c,
                          !.done = IF c = "videoDone" THEN FALSE ELSE @]
    /\ SenderFrame

\* main's select takes <-time.After(24 * time.Hour).
MainTimeout ==
    /\ sender.mainPc = "select"
    /\ sender' = [sender EXCEPT !.mainPc = "closing", !.mainCase = "timeout"]
    /\ SenderFrame

\* main returns: its deferred calls run, freeVideoCoding among them.
MainDeferred ==
    /\ sender.mainPc = "closing"
    /\ sender' = [sender EXCEPT !.mainPc = "freed", !.codecFreed = TRUE]
    /\ SenderFrame

\* The process ends when main has returned; a send loop still running ends
\* with it.
MainExit ==
    /\ sender.mainPc = "freed"
    /\ sender' = [sender EXCEPT
                    !.mainPc = "exited",
                    !.loopPc = IF LoopRunning THEN "killed" ELSE @]
    /\ SenderFrame

LoopStep ==
    \/ LoopTick \/ LoopObserveCancel \/ LoopRecheck \/ LoopReadFrame
    \/ LoopEof \/ LoopSkip \/ LoopEncode \/ LoopWriteSample \/ LoopFrameDone

NextSender ==
    \/ PeerStateChange
    \/ LoopTick \/ LoopObserveCancel \/ LoopRecheck \/ LoopReadFrame
    \/ LoopEof \/ LoopSkip \/ LoopEncode \/ LoopWriteSample \/ LoopFrameDone
    \/ MainSelect \/ MainTimeout \/ MainDeferred \/ MainExit

\* Scheduling: the goroutines of a live process keep running (weak
\* fairness of the loop and of main's steps once a channel is ready), and a
\* select whose ctx.Done() case is ready again and again takes it sooner or
\* later, since Go picks among ready cases uniformly at random (strong
\* fairness).  The 24-hour timer and the connection-state callbacks are the
\* environment's and carry no fairness.
SpecSender ==
    /\ InitSender
    /\ [][NextSender]_vars
    /\ WF_vars(LoopStep)
    /\ SF_vars(LoopObserveCancel)
    /\ WF_vars(MainSelect) /\ WF_vars(MainDeferred) /\ WF_vars(MainExit)

(***************************************************************************)
(* The receive loop of writeH264ToFile in time.  Time is counted in whole  *)
(* seconds; the checks at the loop head take no time, a ReadRTP call takes *)
(* as long as the transport makes it wait.  Bytes are counted in units of  *)
(* the configured maximum (maxSize = 0: no limit, as maxDuration = 0).     *)
(***************************************************************************)
MaxTime == 8        \* seconds followed
MaxRecvBytes == 3   \* size units followed

readTimeout == 5

\* The client programs that run the loop: client.go, client_ndtc.go and
\* client-salsify.go.
ClientKinds == {"client", "ndtc", "salsify"}

\* client_ndtc.go and client-salsify.go take -session-dir; client.go has no
\* such flag.
HasSessionFlag(client) == client \in {"ndtc", "salsify"}

\* writeH264ToFile creates client_metrics.csv when its sessionDir argument
\* is not empty: client_ndtc.go passes *sessionDir, client.go passes "",
\* client-salsify.go passes no session directory.
HasMetricsWriter(r) == r.client = "ndtc" /\ r.sessionDir

\* main closes over recvDone in client_ndtc.go and client-salsify.go;
\* client.go's main ends in select {}.
SignalsRecvDone(client) == client \in {"ndtc", "salsify"}

\* main calls CalculateSummaryMetrics in client_ndtc.go only, when
\* *sessionDir is not empty.
ComputesSummary(r) == r.client = "ndtc" /\ r.sessionDir

\* closing: the shutdown steps taken so far, in order.
NewRecvLoop(maxDuration, maxSize, client, sessionDir) ==
    [pc |-> "head", now |-> 0, startTime |-> 0, lastReadTime |-> 0,
     bytesWritten |-> 0, maxDuration |-> maxDuration, maxSize |-> maxSize,
     packetCount |-> 0, client |-> client, sessionDir |-> sessionDir,
     closing |-> <<>>, returned |-> FALSE, recvDone |-> FALSE,
     mainPc |-> "waiting"]

InitRecvLoop ==
    /\ InitDepack
    /\ CtrlIdle
    /\ SenderIdle /\ MetricsIdle /\ EncIdle
    /\ \E d \in {0, 3}, m \in {0, 2}, c \in ClientKinds, sd \in BOOLEAN :
          /\ sd => HasSessionFlag(c)
          /\ recvLoop = NewRecvLoop(d, m, c, sd)

RecvFrame == UNCHANGED <<depackVars, sent, net, ctrlVars, sender, metrics,
                         enc>>

\* The three tests at the head of the loop, as the code evaluates them.
MaxDurationReached(r) ==
    r.maxDuration > 0 /\ r.now - r.startTime >= r.maxDuration
MaxSizeReached(r) == r.maxSize > 0 /\ r.bytesWritten >= r.maxSize
ReadTimedOut(r) == r.now - r.lastReadTime > readTimeout

\* One pass over the loop head: break, or go on to call track.ReadRTP().
RecvLoopHead ==
    /\ recvLoop.pc = "head"
    /\ recvLoop' = [recvLoop EXCEPT
                      !.pc = IF \/ MaxDurationReached(recvLoop)
                                \/ MaxSizeReached(recvLoop)
                                \/ ReadTimedOut(recvLoop)
                             THEN "stopped" ELSE "reading"]
    /\ RecvFrame

\* track.ReadRTP() returns a packet whose handling writes n size units.
RecvPacket ==
    /\ recvLoop.pc = "reading"
    /\ recvLoop.packetCount < MaxTime
    /\ \E n \in {0, 1} :
          /\ recvLoop.bytesWritten + n <= MaxRecvBytes
          /\ recvLoop' = [recvLoop EXCEPT
                            !.pc = "head",
                            !.lastReadTime = recvLoop.now,
                            !.packetCount = @ + 1,
                            !.bytesWritten = @ + n]
    /\ RecvFrame

\* track.ReadRTP() returns an error (EOF, closed, anything else): break.
RecvReadError ==
    /\ recvLoop.pc = "reading"
    /\ recvLoop' = [recvLoop EXCEPT !.pc = "stopped"]
    /\ RecvFrame

\* A second passes while the loop is blocked in track.ReadRTP(): the call
\* has no deadline and returns only on a packet or an error.
RecvWait ==
    /\ recvLoop.pc = "reading"
    /\ recvLoop.now < MaxTime
    /\ recvLoop' = [recvLoop EXCEPT !.now = @ + 1]
    /\ RecvFrame

\* After the loop: writer.Flush(), file.Sync(), then the deferred calls in
\* reverse order (metricsWriter.Close(), writer.Flush(), file.Close()), and
\* the goroutine that called writeH264ToFile closes recvDone.
RecvShutdown ==
    /\ recvLoop.pc = "stopped" /\ ~recvLoop.returned
    /\ recvLoop' = [recvLoop EXCEPT
                      !.closing = <<"flush", "fsync">>
                                  \o (IF HasMetricsWriter(recvLoop)
                                      THEN <<"csvClose">> ELSE <<>>)
                                  \o <<"flush", "fileClose">>,
                      !.returned = TRUE,
                      !.recvDone = SignalsRecvDone(recvLoop.client)]
    /\ RecvFrame

\* main after <-recvDone: the summary (client_ndtc.go), then return.
ClientMainFinish ==
    /\ recvLoop.mainPc = "waiting" /\ recvLoop.recvDone
    /\ recvLoop' = [recvLoop EXCEPT
                      !.closing = IF ComputesSummary(recvLoop)
                                  THEN Append(@, "summary") ELSE @,
                      !.mainPc = "exited"]
    /\ RecvFrame

NextRecvLoop ==
    \/ RecvLoopHead \/ RecvPacket \/ RecvReadError \/ RecvWait
    \/ RecvShutdown \/ ClientMainFinish

\* The loop's own steps are taken (weak fairness of the loop head) and time
\* passes; what the transport delivers, and when, is up to the peer.
SpecRecvLoop ==
    /\ InitRecvLoop
    /\ [][NextRecvLoop]_vars
    /\ WF_vars(RecvLoopHead)
    /\ WF_vars(RecvWait)
    /\ WF_vars(RecvShutdown)
    /\ WF_vars(ClientMainFinish)

(***************************************************************************)
(* main of client_ndtc.go around the receive loop: the OnTrack callback    *)
(* starts a goroutine per H.264 track that runs writeH264ToFile and then   *)
(* closes recvDone through recvOnce; the connection-state handlers call    *)
(* peerConnection.Close(), after which a pending ReadRTP returns an error; *)
(* main waits on recvDone.  The first H.264 track's loop is followed step  *)
(* by step, a further one only from its start to its return.               *)
(***************************************************************************)
MaxTracks == 2      \* tracks delivered to OnTrack

OverStates == {"failed", "closed", "disconnected"}

NewClient(maxDuration, maxSize, sessionDir) ==
    [pc |-> "noTrack", now |-> 0, startTime |-> 0, lastReadTime |-> 0,
     bytesWritten |-> 0, maxDuration |-> maxDuration, maxSize |-> maxSize,
     packetCount |-> 0, client |-> "ndtc", sessionDir |-> sessionDir,
     closing |-> <<>>, returned |-> FALSE, recvDone |-> FALSE,
     mainPc |-> "waiting", conn |-> "connected", tracks |-> 0,
     second |-> "none",
     onceDone |-> FALSE, closes |-> 0]

InitClient ==
    /\ InitDepack
    /\ CtrlIdle
    /\ SenderIdle /\ MetricsIdle /\ EncIdle
    /\ \E d \in {0, 3}, m \in {0, 2}, sd \in BOOLEAN :
          recvLoop = NewClient(d, m, sd)

\* recvOnce.Do(func() { close(recvDone) })
RecvOnceDo(r) ==
    IF r.onceDone THEN r
    ELSE [r EXCEPT !.onceDone = TRUE, !.recvDone = TRUE, !.closes = @ + 1]

\* The OnTrack callback: a track of another codec is only reported, an
\* H.264 track gets its goroutine, which enters writeH264ToFile (startTime
\* and lastReadTime are time.Now(); time is counted from the first of these
\* calls).
OnTrack ==
    /\ recvLoop.conn = "connected" /\ recvLoop.tracks < MaxTracks
    /\ \E codecName \in {"h264", "vp8"} :
          recvLoop' =
              IF codecName # "h264"
              THEN [recvLoop EXCEPT !.tracks = @ + 1]
              ELSE IF recvLoop.pc = "noTrack"
                   THEN [recvLoop EXCEPT !.tracks = @ + 1,
                                         !.pc = "head",
                                         !.startTime = recvLoop.now,
                                         !.lastReadTime = recvLoop.now]
                   ELSE [recvLoop EXCEPT !.tracks = @ + 1,
                                         !.second = "running"]
    /\ RecvFrame

\* The peer connection reaches Failed, Closed or Disconnected and the
\* handler calls peerConnection.Close().
ConnectionOver ==
    /\ recvLoop.conn = "connected"
    /\ \E s \in OverStates : recvLoop' = [recvLoop EXCEPT !.conn = s]
    /\ RecvFrame

\* Packets arrive only while the connection is up.
ClientRecvPacket == recvLoop.conn = "connected" /\ RecvPacket

\* ReadRTP on a closed connection returns an error.
ClientReadClosed == recvLoop.conn \in OverStates /\ RecvReadError

\* writeH264ToFile returns in the first track's goroutine, which then runs
\* recvOnce.Do.
TrackLoopReturns ==
    /\ recvLoop.pc = "stopped" /\ ~recvLoop.returned
    /\ recvLoop' = RecvOnceDo(
          [recvLoop EXCEPT
              !.closing = <<"flush", "fsync">>
                          \o (IF HasMetricsWriter(recvLoop)
                              THEN <<"csvClose">> ELSE <<>>)
                          \o <<"flush", "fileClose">>,
              !.returned = TRUE])
    /\ RecvFrame

\* The same in the goroutine of a further H.264 track.
SecondTrackReturns ==
    /\ recvLoop.second = "running"
    /\ recvLoop' = RecvOnceDo([recvLoop EXCEPT !.second = "returned"])
    /\ RecvFrame

NextClient ==
    \/ OnTrack \/ ConnectionOver
    \/ RecvLoopHead \/ ClientRecvPacket \/ RecvReadError \/ RecvWait
    \/ TrackLoopReturns \/ SecondTrackReturns \/ ClientMainFinish

\* The goroutines keep running: the loop head, the return from a stopped
\* loop and main's wake-up are taken (weak fairness), and so is the return
\* of ReadRTP once the connection has been closed.  Tracks, packets and
\* connection states are the peer's and carry no fairness.
SpecClient ==
    /\ InitClient
    /\ [][NextClient]_vars
    /\ WF_vars(RecvLoopHead)
    /\ WF_vars(ClientReadClosed)
    /\ WF_vars(TrackLoopReturns)
    /\ WF_vars(SecondTrackReturns)
    /\ WF_vars(ClientMainFinish)

(***************************************************************************)
(* recordFrameMetrics and MetricsCSVWriter.WriteMetric.  The clock is      *)
(* counted in half milliseconds, so that Duration.Milliseconds() (integer  *)
(* division truncating toward zero) and the float Nanoseconds()/1e6 differ *)
(* as they do in the code.  latency_ms is kept as the "%.3f" text's value  *)
(* in thousandths of a millisecond.                                        *)
(***************************************************************************)
MaxMetricFrames == 3    \* frames recorded
MaxClock == 7           \* half milliseconds followed
MaxArrivals == 10       \* frames of a scheduled arrival sequence

TicksPerSecond == 2000  \* half milliseconds in time.Second
NanosPerTick == 500000  \* nanoseconds in half a millisecond

frameRate == 30             \* the callers' frameRate argument, 30.0
windowDuration == 2000      \* 1 * time.Second
minWindowDuration == 20     \* 10 * time.Millisecond
minWindowFrames == 5
MaxBitrateKbps == 1000000   \* 1000 Mbps

\* time.Duration(float64(time.Second) / frameRate), in nanoseconds
normalFrameInterval == IF frameRate > 0 THEN Second \div frameRate ELSE 0

stallThreshold == normalFrameInterval * 2

\* Go's integer division truncates toward zero.
Quot(a, b) == IF a >= 0 THEN a \div b ELSE -((-a) \div b)

\* Duration.Milliseconds() of a duration given in half milliseconds.
Milliseconds(d) == Quot(d, 2)

\* fmt.Sprintf("%.3f", x) of a latency of h half milliseconds.
FormatMillis3(h) == h * 500

\* The session files as writeH264ToFile loaded them: start_time.txt (the
\* sender epoch), frame_metadata.csv (frame id -> send_start_ms) and whether
\* a session directory, hence a metrics writer, exists at all.
FrameMetadataMaps ==
    { [k \in {} |-> 0],
      [k \in {1, 2, 3} |-> k - 1],
      [k \in {1, 2} |-> 1],
      [k \in {2, 3} |-> 2] }

\* What the network and the file deliver to the receiver: the bytes
\* writeNALUnit adds to bytesWritten for the k-th frame (0 when its Write
\* fails: a bufio.Writer keeps its first error, so every later Write fails
\* too) and the time that passes before the k-th frame arrives.
ClockSteps == {0, 5, 133, 134, 2000}
FrameByteCounts == {1000, 300000}

FrameBytesOf(n, size, failAt) ==
    [k \in 1..n |-> IF failAt # 0 /\ k >= failAt THEN 0 ELSE size]

GapsOf(n, usual, j, other) ==
    [k \in 1..n |-> IF k = j THEN other ELSE usual]

NewMetrics(session, epochLoaded, metadata, clock, frameBytes, gaps) ==
    [session |-> session,
     epochLoaded |-> session /\ epochLoaded,
     serverStartTime |-> 2,
     frameMetadataMap |-> IF session THEN metadata ELSE [k \in {} |-> 0],
     now |-> clock,
     writerStart |-> IF session /\ epochLoaded THEN 2 ELSE clock,
     hasLast |-> FALSE, lastFrameReceiveTime |-> 0,
     frameID |-> 0, rows |-> <<>>,
     frameBytes |-> frameBytes, gaps |-> gaps, waited |-> FALSE,
     bytesWritten |-> 0, lastFrameBytesWritten |-> 0,
     bitWindow |-> <<>>, lastEffectiveBitrateKbps |-> R(0),
     received |-> <<>>]

InitMetrics ==
    /\ InitDepack
    /\ CtrlIdle
    /\ SenderIdle /\ RecvLoopIdle /\ EncIdle
    /\ metrics \in {NewMetrics(s, e, m, c,
                                FrameBytesOf(MaxMetricFrames, 1000, 0), <<>>) :
                       s \in BOOLEAN, e \in BOOLEAN,
                       m \in FrameMetadataMaps, c \in {1, 2}}

MetricsFrame == UNCHANGED <<depackVars, sent, net, ctrlVars, sender,
                            recvLoop, enc>>

\* The latency recordFrameMetrics hands to WriteMetric, in half
\* milliseconds: the end-to-end latency, 0 when the metadata or the epoch is
\* missing, replaced by the inter-frame latency when it is 0.
LatencyHalfMs(m, id, receiveTime) ==
    LET e2eLatency ==
            IF id \in DOMAIN m.frameMetadataMap /\ m.epochLoaded
            THEN 2 * (Milliseconds(receiveTime - m.serverStartTime)
                      - m.frameMetadataMap[id])
            ELSE 0
        interFrameLatency ==
            IF m.hasLast THEN receiveTime - m.lastFrameReceiveTime
            ELSE e2eLatency
    IN  IF e2eLatency = 0 THEN interFrameLatency ELSE e2eLatency

\* A stall test that measures the first frame from the zero time.
StallOf_FromZeroTime(m, receiveTime) ==
    /\ stallThreshold > 0
    /\ (receiveTime - m.lastFrameReceiveTime) * NanosPerTick > stallThreshold

\* stall: a previous frame exists and the inter-frame latency (in
\* nanoseconds) exceeds a positive stallThreshold.
StallOf(m, receiveTime) ==
    /\ m.hasLast
    /\ stallThreshold > 0
    /\ (receiveTime - m.lastFrameReceiveTime) * NanosPerTick > stallThreshold

\* frameBits: the bytes written since the previous frame, never negative.
FrameBitsOf(m, currentBytesWritten) ==
    LET frameBits == (currentBytesWritten - m.lastFrameBytesWritten) * 8
    IN  IF frameBits < 0 THEN 0 ELSE frameBits

\* the loop over bitWindow: the index of the first sample whose Time is
\* after cutoffTime, the first index when there is none
RECURSIVE ValidStart(_, _, _)
ValidStart(window, cutoffTime, i) ==
    IF i > Len(window) THEN 1
    ELSE IF window[i].Time > cutoffTime THEN i
    ELSE ValidStart(window, cutoffTime, i + 1)

\* bitWindow after the append and the trim
TrimmedWindow(m, receiveTime, frameBits) ==
    LET appended == Append(m.bitWindow,
                           [Time |-> receiveTime, Bits |-> frameBits])
        cutoffTime == receiveTime - windowDuration
    IN  SubSeq(appended, ValidStart(appended, cutoffTime, 1), Len(appended))

RECURSIVE TotalBits(_, _)
TotalBits(window, i) ==
    IF i > Len(window) THEN 0 ELSE window[i].Bits + TotalBits(window, i + 1)

\* effectiveBitrateKbps computed over the trimmed window, as an exact
\* fraction: totalBits / windowDurationSec / 1000 with the span counted in
\* half milliseconds.  The previous frame's value replaces a 0 and a value
\* above 1000 Mbps.
EffectiveBitrateKbps(m, window) ==
    LET span == window[Len(window)].Time - window[1].Time
        totalBits == TotalBits(window, 1)
        computed ==
            IF /\ Len(window) >= 2
               /\ span > 0
               /\ span >= minWindowDuration
               /\ Len(window) >= minWindowFrames
               /\ totalBits > 0
            THEN Rat(totalBits * 2, span)
            ELSE R(0)
        previous == IF RLt(R(0), m.lastEffectiveBitrateKbps)
                    THEN m.lastEffectiveBitrateKbps ELSE R(0)
    IN  IF Len(window) >= 2
        THEN IF computed = R(0) \/ RLt(R(MaxBitrateKbps), computed)
             THEN previous ELSE computed
        ELSE previous

\* The record WriteMetric appends (timestamp_ms, frame_index, latency_ms,
\* stall, effective_bitrate_kbps); the bitrate is kept as the value handed
\* to WriteMetric.
MetricRecord(m, id, receiveTime, window) ==
    [timestamp_ms |-> Milliseconds(receiveTime - m.writerStart),
     frame_index |-> id,
     latency_ms |-> FormatMillis3(LatencyHalfMs(m, id, receiveTime)),
     stall |-> StallOf(m, receiveTime),
     effective_bitrate_kbps |-> EffectiveBitrateKbps(m, window)]

\* A frame's NAL unit is written and recordFrameMetrics runs: the frame
\* counter advances, the bit window and the last bitrate are updated, the
\* row is written when a metrics writer exists, the receive time is
\* remembered.  Under a schedule of gaps the frame arrives once its gap has
\* passed.  received lists every frame's sample for the properties.
RecordFrameMetrics ==
    /\ metrics.frameID < Len(metrics.frameBytes)
    /\ Len(metrics.gaps) > 0 => metrics.waited
    /\ LET id == metrics.frameID + 1
           receiveTime == metrics.now
           currentBytesWritten == metrics.bytesWritten + metrics.frameBytes[id]
           frameBits == FrameBitsOf(metrics, currentBytesWritten)
           window == TrimmedWindow(metrics, receiveTime, frameBits)
       IN  metrics' = [metrics EXCEPT
                         !.frameID = id,
                         !.bytesWritten = currentBytesWritten,
                         !.lastFrameBytesWritten = currentBytesWritten,
                         !.bitWindow = window,
                         !.lastEffectiveBitrateKbps =
                             EffectiveBitrateKbps(metrics, window),
                         !.rows = IF metrics.session
                                  THEN Append(@, MetricRecord(metrics, id,
                                                     receiveTime, window))
                                  ELSE @,
                         !.received = Append(@, [Time |-> receiveTime,
                                                 Bits |-> frameBits]),
                         !.waited = FALSE,
                         !.hasLast = TRUE,
                         !.lastFrameReceiveTime = receiveTime]
    /\ MetricsFrame

\* Half a millisecond passes on the receiver's clock.
ClockTick ==
    /\ metrics.now < MaxClock
    /\ metrics' = [metrics EXCEPT !.now = @ + 1]
    /\ MetricsFrame

NextMetrics == RecordFrameMetrics \/ ClockTick

SpecMetrics == InitMetrics /\ [][NextMetrics]_vars

(***************************************************************************)
(* The same receiver over a longer run: a session with its epoch, frames   *)
(* arriving after scheduled gaps (none, 2.5 ms, 66.5 ms, 67 ms, 1 s), of   *)
(* one size until the file's writes start failing.                         *)
(***************************************************************************)
InitArrivals ==
    /\ InitDepack
    /\ CtrlIdle
    /\ SenderIdle /\ RecvLoopIdle /\ EncIdle
    /\ \E size \in FrameByteCounts, failAt \in 0..MaxArrivals,
          usual \in {0, 5, 134}, j \in 1..MaxArrivals, other \in ClockSteps :
          metrics = NewMetrics(TRUE, TRUE, [k \in {1, 2, 3} |-> k - 1], 2,
                               FrameBytesOf(MaxArrivals, size, failAt),
                               GapsOf(MaxArrivals, usual, j, other))

\* The time until the next frame arrives passes.
ClockJump ==
    /\ ~metrics.waited
    /\ metrics.frameID < Len(metrics.gaps)
    /\ metrics' = [metrics EXCEPT
                     !.now = @ + metrics.gaps[metrics.frameID + 1],
                     !.waited = TRUE]
    /\ MetricsFrame

NextArrivals == RecordFrameMetrics \/ ClockJump

SpecArrivals == InitArrivals /\ [][NextArrivals]_vars

(***************************************************************************)
(* The summary of a session (metrics_summary.go): CalculateSummaryMetrics  *)
(* applied to a client_metrics.csv of n rows.  Latencies and bitrates are  *)
(* counted in thousandths, as the "%.3f" fields of the CSV hold them.      *)
(***************************************************************************)
MaxRows == 100      \* rows of client_metrics.csv

\* latency_ms of row i: distinct values in no order, one value throughout,
\* or falling values
LatencyPatterns == {"mixed", "flat", "falling"}

PatternLatency(pattern, i) ==
    IF pattern = "mixed" THEN ((i * 37) % 101) * 1000
    ELSE IF pattern = "flat" THEN 20000
    ELSE (MaxRows + 2 - i) * 500

\* a client_metrics.csv of n rows, one each 33 ms
SummaryRows(n, pattern) ==
    [i \in 1..n |->
        [timestamp_ms |-> 33 * (i - 1), frame_index |-> i,
         latency_ms |-> PatternLatency(pattern, i),
         stall |-> i % 10 = 0,
         effective_bitrate_kbps |-> IF i < 5 THEN 0 ELSE 800000]]

NoSummary == [state |-> "none"]

RECURSIVE SumRange(_, _, _)
SumRange(xs, lo, hi) ==
    IF lo > hi THEN 0
    ELSE IF lo = hi THEN xs[lo]
    ELSE LET mid == (lo + hi) \div 2
         IN  SumRange(xs, lo, mid) + SumRange(xs, mid + 1, hi)

\* sort.Float64s
SortFloat64s(xs) == SortSeq(xs, LAMBDA a, b : a < b)

\* int(float64(n) * 0.99), clamped to n - 1: the product of n < 2^31 with
\* the double 0.99 rounds to the double nearest 99n/100, whose integer part
\* is that of 99n/100.
P99Index(n) ==
    LET p99Index == (99 * n) \div 100
    IN  IF p99Index >= n THEN n - 1 ELSE p99Index

\* firstTimestamp / lastTimestamp of the loop over the records: a first
\* timestamp of 0 counts as not yet set
RECURSIVE FirstTimestamp(_, _)
FirstTimestamp(rows, i) ==
    IF i > Len(rows) THEN 0
    ELSE IF rows[i].timestamp_ms # 0 THEN rows[i].timestamp_ms
    ELSE FirstTimestamp(rows, i + 1)

CalculateSummaryMetrics(rows) ==
    LET n == Len(rows)
        latencies == [i \in 1..n |-> rows[i].latency_ms]
        sorted == SortFloat64s(latencies)
        stalls == [i \in 1..n |-> IF rows[i].stall THEN 1 ELSE 0]
        rated == [i \in 1..n |->
                    IF rows[i].effective_bitrate_kbps > 0 THEN 1 ELSE 0]
        rates == [i \in 1..n |-> rows[i].effective_bitrate_kbps]
        bitrateCount == SumRange(rated, 1, n)
    IN  IF n = 0 THEN [state |-> "error"]
        ELSE [state |-> "ok",
              TotalFrames |-> n,
              AverageLatencyMs |-> Rat(SumRange(latencies, 1, n), n),
              P99LatencyMs |-> sorted[P99Index(n) + 1],
              StallRate |-> Rat(SumRange(stalls, 1, n), n),
              EffectiveBitrateKbps |->
                  IF bitrateCount > 0
                  THEN Rat(SumRange(rates, 1, n), bitrateCount) ELSE R(0),
              TotalStallFrames |-> SumRange(stalls, 1, n),
              TotalDurationMs |->
                  rows[n].timestamp_ms - FirstTimestamp(rows, 1)]

InitSummary ==
    /\ InitDepack
    /\ CtrlIdle
    /\ SenderIdle /\ RecvLoopIdle /\ EncIdle
    /\ \E n \in 0..MaxRows, pattern \in LatencyPatterns :
          metrics = [rows |-> SummaryRows(n, pattern), summary |-> NoSummary]

\* main (client_ndtc.go) after the receive loop: the summary of the CSV
Summarise ==
    /\ metrics.summary = NoSummary
    /\ metrics' = [metrics EXCEPT
                     !.summary = CalculateSummaryMetrics(metrics.rows)]
    /\ MetricsFrame

NextSummary == Summarise

SpecSummary == InitSummary /\ [][NextSummary]_vars

(***************************************************************************)
(* updateEncoderForBudgetBurst (server_ffmpeg_burst.go): budget -> CRF and *)
(* the rebuild of the encoder context.  The codec context is              *)
(* [gen, state, crf]: gen changes whenever the context is freed or         *)
(* replaced, state is "nil", "allocated" (not opened) or "open".           *)
(***************************************************************************)
MaxEncCalls == 3    \* calls of updateEncoderForBudgetBurst followed

minBits == 50000
maxBits == 500000
minCRF == 18
maxCRF == 32

\* ratio := float64(targetBits-minBits) / float64(maxBits-minBits);
\* maxCRF - int(ratio*float64(maxCRF-minCRF)).  For the integers strictly
\* between minBits and maxBits the float64 result is the exact quotient's
\* truncation.
TargetCRF_RoundNearest(targetBits) ==
    IF targetBits <= minBits THEN maxCRF
    ELSE IF targetBits >= maxBits THEN minCRF
    ELSE maxCRF - (2 * (targetBits - minBits) * (maxCRF - minCRF)
                   + (maxBits - minBits)) \div (2 * (maxBits - minBits))

TargetCRF(targetBits) ==
    IF targetBits <= minBits THEN maxCRF
    ELSE IF targetBits >= maxBits THEN minCRF
    ELSE maxCRF - ((targetBits - minBits) * (maxCRF - minCRF))
                     \div (maxBits - minBits)

absBurst(x) == IF x < 0 THEN -x ELSE x

\* if burstCurrentCRF >= 0 && absBurst(burstCurrentCRF-targetCRF) <= 2
\*     { return nil }
KeepsEncoder_OneUnit(currentCRF, targetCRF) ==
    currentCRF >= 0 /\ absBurst(currentCRF - targetCRF) < 2

KeepsEncoder(currentCRF, targetCRF) ==
    currentCRF >= 0 /\ absBurst(currentCRF - targetCRF) <= 2

\* How far the rebuild gets: FindEncoder returns nil, AllocCodecContext
\* returns nil, a Dictionary.Set fails, Open fails, or all succeed.
RebuildOutcomes == {"noEncoder", "allocFailed", "setFailed", "openFailed",
                    "ok"}

NilContext(gen) == [gen |-> gen, state |-> "nil", crf |-> -1]

\* The encoder context as initVideoEncoding leaves it, or none yet.
NewEncoder(opened) ==
    [burstCurrentCRF |-> -1, burstLastBudgetBits |-> -1,
     context |-> IF opened THEN [gen |-> 0, state |-> "open", crf |-> 23]
                 ELSE NilContext(0),
     history |-> <<>>]

updateEncoderForBudgetBurst(e, targetBits, outcome) ==
    LET targetCRF == TargetCRF(targetBits)
        call == [targetBits |-> targetBits, targetCRF |-> targetCRF,
                 currentCRF |-> e.burstCurrentCRF,
                 rebuilt |-> ~KeepsEncoder(e.burstCurrentCRF, targetCRF)]
        h == [e EXCEPT !.history = Append(@, call)]
        gen == e.context.gen + 1
    IN  IF KeepsEncoder(e.burstCurrentCRF, targetCRF) THEN h
        ELSE IF outcome \in {"noEncoder", "allocFailed"}
        THEN [h EXCEPT !.context = NilContext(gen)]
        ELSE IF outcome \in {"setFailed", "openFailed"}
        THEN [h EXCEPT !.context = [gen |-> gen, state |-> "allocated",
                                    crf |-> -1]]
        ELSE [h EXCEPT !.context = [gen |-> gen, state |-> "open",
                                    crf |-> targetCRF],
                       !.burstCurrentCRF = targetCRF,
                       !.burstLastBudgetBits = targetBits]

\* Budgets handed to the function: both clamps, their edges, the steps of
\* the interpolation and the extremes of the controller's range.
Budgets == {-2147483647, 0, 49999, 50000, 50001, 82142, 82143, 180000,
            220000, 250000, 275000, 467858, 499999, 500000, 500001,
            2147483647}

InitEncoder ==
    /\ InitDepack
    /\ CtrlIdle
    /\ SenderIdle /\ RecvLoopIdle /\ MetricsIdle
    /\ enc \in {NewEncoder(o) : o \in BOOLEAN}

UpdateEncoder ==
    /\ Len(enc.history) < MaxEncCalls
    /\ \E b \in Budgets, o \in RebuildOutcomes :
          enc' = updateEncoderForBudgetBurst(enc, b, o)
    /\ UNCHANGED <<depackVars, sent, net, ctrlVars, sender, recvLoop,
                   metrics>>

NextEncoder == UpdateEncoder

SpecEncoder == InitEncoder /\ [][NextEncoder]_vars

(***************************************************************************)
(* Salsify's choice among the encodings of one frame                       *)
(* (encodeMultipleCandidates, server_ffmpeg_salsify.go, and the selection  *)
(* in writeVideoToTrackSalsify).  Each QP level is encoded by an encoder   *)
(* of its own; the level is skipped when that fails.  The sizes are what   *)
(* the encoder returns.                                                    *)
(***************************************************************************)
qpLevels == <<20, 25, 30, 35>>

CandidateBits == {0, 9000, 10000, 12000, 48000}

FrameBudgets == {10000, 42000, 5000000}

\* encodeFrameWithQP per level: an error, or the bits of the packets
EncodeResults ==
    {[ok |-> FALSE, bits |-> 0]}
        \cup {[ok |-> TRUE, bits |-> b] : b \in CandidateBits}

EncodeOutcomes == [1..Len(qpLevels) -> EncodeResults]

RECURSIVE CandidatesFrom(_, _)
CandidatesFrom(outcome, i) ==
    IF i > Len(qpLevels) THEN <<>>
    ELSE IF ~outcome[i].ok THEN CandidatesFrom(outcome, i + 1)
    ELSE <<[QP |-> qpLevels[i], Bits |-> outcome[i].bits]>>
             \o CandidatesFrom(outcome, i + 1)

encodeMultipleCandidates(outcome) == CandidatesFrom(outcome, 1)

\* the loop over the candidates: the index selected so far, 0 for nil
RECURSIVE SelectWithinBudget(_, _, _, _)
SelectWithinBudget(candidates, budgetBits, i, selected) ==
    IF i > Len(candidates) THEN selected
    ELSE SelectWithinBudget(candidates, budgetBits, i + 1,
            IF /\ candidates[i].Bits <= budgetBits
               /\ (selected = 0 \/ candidates[i].QP < candidates[selected].QP)
            THEN i ELSE selected)

\* selectedCandidate, as an index into candidates
SelectCandidate(candidates, budgetBits) ==
    LET selected == SelectWithinBudget(candidates, budgetBits, 1, 0)
    IN  IF selected = 0 THEN Len(candidates) ELSE selected

NewSelection(outcome, budgetBits) ==
    [calls |-> 0, outcome |-> outcome, budgetBits |-> budgetBits,
     pc |-> "encode", candidates |-> <<>>, selected |-> 0,
     sentBitsForFrame |-> 0]

InitCandidates ==
    /\ InitDepack
    /\ CtrlIdle
    /\ SenderIdle /\ RecvLoopIdle /\ MetricsIdle
    /\ \E outcome \in EncodeOutcomes, b \in FrameBudgets :
          enc = NewSelection(outcome, b)

\* One frame of the Salsify loop from the encoding on: without a candidate
\* the frame is skipped; otherwise the selected candidate is sent and its
\* bits are reported to the controller.
EncodeAndSelect ==
    /\ enc.pc = "encode"
    /\ LET candidates == encodeMultipleCandidates(enc.outcome)
       IN  IF Len(candidates) = 0
           THEN enc' = [enc EXCEPT !.pc = "skipped"]
           ELSE LET selected == SelectCandidate(candidates, enc.budgetBits)
                IN  enc' = [enc EXCEPT
                              !.pc = "sent",
                              !.candidates = candidates,
                              !.selected = selected,
                              !.sentBitsForFrame = candidates[selected].Bits]
    /\ UNCHANGED <<depackVars, sent, net, ctrlVars, sender, recvLoop,
                   metrics>>

NextCandidates == EncodeAndSelect

SpecCandidates == InitCandidates /\ [][NextCandidates]_vars

(***************************************************************************)
(* Reading the history of payloads: what each packet is to the loop.       *)
(***************************************************************************)
IsSinglePkt(p) == Len(p) >= 1 /\ NalTypeOf(p[1]) >= 1 /\ NalTypeOf(p[1]) <= 23

IsStapPkt(p) == Len(p) >= 1 /\ NalTypeOf(p[1]) = 24

IsFuPkt(p) == Len(p) >= 2 /\ NalTypeOf(p[1]) = 28

\* Packets the loop skips without touching the reassembly buffer.
IsSkippedPkt(p) == ~IsSinglePkt(p) /\ ~IsStapPkt(p) /\ ~IsFuPkt(p)

LastPkt(h) == h[Len(h)]

\* h[i..n] is an FU-A sequence that delivers its end fragment at n: a start
\* fragment at i, then only same-type non-start fragments (and skipped
\* packets), no end bit before n.
FuRunEndsAt(h, i, n) ==
    /\ 1 <= i /\ i <= n /\ n <= Len(h)
    /\ IsFuPkt(h[i]) /\ StartBit(h[i][2])
    /\ IsFuPkt(h[n]) /\ EndBit(h[n][2])
    /\ \A k \in (i + 1)..n :
          \/ IsSkippedPkt(h[k])
          \/ /\ IsFuPkt(h[k])
             /\ ~StartBit(h[k][2])
             /\ NalTypeOf(h[k][2]) = NalTypeOf(h[i][2])
    /\ \A k \in i..(n - 1) : IsFuPkt(h[k]) => ~EndBit(h[k][2])

RECURSIVE FuRunData(_, _, _)
FuRunData(h, i, n) ==
    IF i > n THEN <<>>
    ELSE (IF IsFuPkt(h[i]) THEN Drop(h[i], 2) ELSE <<>>)
             \o FuRunData(h, i + 1, n)

FuRunNal(h, i, n) ==
    <<HighBits(h[i][1]) + NalTypeOf(h[i][2])>> \o FuRunData(h, i, n)

\* The Write calls appended by the step.
Appended == SubSeq(file', Len(file) + 1, Len(file'))

IsPrefix(s, t) == Len(s) <= Len(t) /\ SubSeq(t, 1, Len(s)) = s

IsSubSeqOf(d, p) ==
    \E a \in 1..(Len(p) + 1) : \E b \in 0..Len(p) : d = SubSeq(p, a, b)

ReadStep == packets' # packets

\* C1: bytes of an FU-A reassembly reach the file only in the step that
\* processes an end-bit fragment, and then they are the fragments of the
\* sequence that this end fragment closes; an FU-A fragment without the
\* end bit, a packet of another kind (which writes only its own bytes) and
\* the termination of the loop append nothing of a pending reassembly.
C1_NoPartialFuA ==
    [][ /\ IsPrefix(file, file')
        /\ ~ReadStep => file' = file
        /\ ReadStep =>
             LET p == LastPkt(packets')
                 n == Len(packets')
             IN  /\ (IsFuPkt(p) /\ ~EndBit(p[2])) => file' = file
                 /\ (IsFuPkt(p) /\ EndBit(p[2]) /\ file' # file) =>
                        \E i \in 1..n :
                            /\ FuRunEndsAt(packets', i, n)
                            /\ Appended = <<startCode, FuRunNal(packets', i, n)>>
                 /\ IsSkippedPkt(p) => file' = file
                 /\ (IsSinglePkt(p) \/ IsStapPkt(p)) =>
                        \A k \in 1..Len(Appended) :
                            \/ Appended[k] = startCode
                            \/ IsSubSeqOf(Appended[k], p)
      ]_vars

\* C1 witness: a start and a continuation fragment were interrupted by a
\* Single NAL packet, a further end fragment arrived, the loop stopped, and
\* the file holds the Single NAL unit only.
C1_Witness ==
    /\ ~running
    /\ Len(packets) >= 3
    /\ \E i \in 1..(Len(packets) - 2) :
          /\ IsFuPkt(packets[i]) /\ StartBit(packets[i][2])
          /\ ~EndBit(packets[i][2])
          /\ IsSinglePkt(packets[i + 1])
          /\ IsFuPkt(packets[i + 2]) /\ EndBit(packets[i + 2][2])
          /\ ~StartBit(packets[i + 2][2])
    /\ file = <<startCode, packets[2]>>
    /\ Len(packets) = 3

ContainsStartCode(d) ==
    \E a \in 1..Len(d) : a + 3 <= Len(d) /\ SubSeq(d, a, a + 3) = startCode

\* C4 (as claimed): whatever the payloads, no NAL unit written to the file
\* contains 00 00 00 01.
C4_NoStartCodeInNal ==
    \A k \in 1..Len(file) : k % 2 = 0 => ~ContainsStartCode(file[k])

\* C4 (amended): when the sender's NAL units contain no 00 00 00 01 and are
\* delivered in order without loss, no NAL unit written to the file
\* contains 00 00 00 01.
C4_NoStartCodeInNal_Lossless ==
    (\A j \in 1..Len(sent) : ~ContainsStartCode(sent[j]))
        => \A k \in 1..Len(file) : k % 2 = 0 => ~ContainsStartCode(file[k])

\* C4 witness: the unit 06 00 00 01 was fragmented, reassembled and written.
C4_Witness ==
    /\ net = <<>>
    /\ Len(packets) >= 2
    /\ IsFuPkt(LastPkt(packets))
    /\ sent = << <<6, 0, 0, 1>> >>
    /\ Len(file) = 2

\* C5: when the packets read last are, consecutively, an FU-A start
\* fragment, continuation fragments and an end fragment of one type t, the
\* step that processes the end fragment appends exactly one NAL unit: the
\* start code, the byte (indicator & 0xE0) | t and the fragment payloads in
\* arrival order; the steps that process the start and the continuation
\* fragments append nothing.
IsFuStartOnly(p) == IsFuPkt(p) /\ StartBit(p[2]) /\ ~EndBit(p[2])

IsFuMiddle(p, t) ==
    IsFuPkt(p) /\ ~StartBit(p[2]) /\ ~EndBit(p[2]) /\ NalTypeOf(p[2]) = t

IsFuEndOnly(p, t) ==
    IsFuPkt(p) /\ ~StartBit(p[2]) /\ EndBit(p[2]) /\ NalTypeOf(p[2]) = t

\* h[i..n] is start, continuations only; complete says h[n] is the end.
ConsecutiveFu(h, i, n, complete) ==
    /\ 1 <= i /\ i <= n /\ n <= Len(h)
    /\ IsFuStartOnly(h[i])
    /\ \A k \in (i + 1)..(n - 1) : IsFuMiddle(h[k], NalTypeOf(h[i][2]))
    /\ i < n =>
          IF complete THEN IsFuEndOnly(h[n], NalTypeOf(h[i][2]))
          ELSE IsFuMiddle(h[n], NalTypeOf(h[i][2]))
    /\ complete => i < n

RECURSIVE ConcatData(_, _, _)
ConcatData(h, i, n) ==
    IF i > n THEN <<>> ELSE Drop(h[i], 2) \o ConcatData(h, i + 1, n)

RECURSIVE TupleOffset(_, _)
TupleOffset(p, j) ==
    IF j = 1 THEN 1
    ELSE LET o == TupleOffset(p, j - 1)
         IN  IF o + 2 > Len(p) THEN Len(p) + 2
             ELSE o + 2 + p[o + 1] * 256 + p[o + 2]

TupleFits(p, j) ==
    LET o == TupleOffset(p, j)
    IN  o + 2 <= Len(p) /\ o + 2 + p[o + 1] * 256 + p[o + 2] <= Len(p)

TupleNal(p, j) ==
    LET o == TupleOffset(p, j)
    IN  SubSeq(p, o + 3, o + 2 + p[o + 1] * 256 + p[o + 2])

\* The number of leading tuples that fit.
TupleCount(p) ==
    CHOOSE c \in 0..Len(p) :
        /\ \A j \in 1..c : TupleFits(p, j)
        /\ ~TupleFits(p, c + 1)

RECURSIVE AnnexBWrites(_)
AnnexBWrites(nals) ==
    IF nals = <<>> THEN <<>>
    ELSE (IF Head(nals) = <<>> THEN <<>> ELSE <<startCode, Head(nals)>>)
             \o AnnexBWrites(Tail(nals))

RECURSIVE AnnexB(_)
AnnexB(nals) ==
    IF nals = <<>> THEN <<>>
    ELSE startCode \o Head(nals) \o AnnexB(Tail(nals))

Window ==
    IF ctrlKind = "ndtc" THEN fdaceWin.samples
    ELSE IF ctrlKind = "salsify" THEN salsify.observations
    ELSE burst.observations

WindowCapacity ==
    IF ctrlKind = "ndtc" THEN fdaceWin.maxCount
    ELSE IF ctrlKind = "salsify" THEN salsify.cfg.WindowSize
    ELSE burst.cfg.WindowSize

\* the bit count of an observation, as an integer
BitsOf(o) == IF ctrlKind = "ndtc" THEN o.L.n ELSE o.SentBits

Min(a, b) == IF a < b THEN a ELSE b

\* the window is the last min(i, N) of the i observations recorded so far
WindowIsRecentTail ==
    LET i == Len(obsLog)
        k == Min(i, WindowCapacity)
    IN  /\ Len(Window) = k
        /\ Window = SubSeq(obsLog, i - k + 1, i)

(***************************************************************************)
(* C7: every budget returned is within its bounds: Salsify's               *)
(* NextFrameBudget returns a value in [10000, 5000000]; NDTC's and         *)
(* BurstRTC's return a value of at least 1.                                *)
(***************************************************************************)
C7_BudgetBounds ==
    /\ budget.kind = "salsify" =>
            budget.bits >= 10000 /\ budget.bits <= 5000000
    /\ budget.kind \in {"ndtc", "burst"} => budget.bits >= 1

(***************************************************************************)
(* C8: once NdtcController has accepted an estimate A > 0 (its             *)
(* lastEstimatedBps is then positive), its capacity stays strictly         *)
(* positive whatever OnCapacityEstimate, OnLossEvent, OnNoLossPeriod and   *)
(* SetConfig calls follow.                                                 *)
(***************************************************************************)
C8_CapacityStaysPositive ==
    (ctrlKind = "ndtc" /\ FPos(ndtc.lastEstimatedBps))
        => FPos(ndtc.capacityBps)

(***************************************************************************)
(* C9: for every BurstConfig given to NewBurstController and every         *)
(* sequence of UpdateStats calls, the burst fraction returned by           *)
(* NextFrameBudget lies in (0, 1].                                         *)
(***************************************************************************)
C9_BurstFractionInUnitInterval ==
    budget.kind = "burst" =>
        RPos(budget.fraction) /\ RLe(budget.fraction, R(1))

(***************************************************************************)
(* C10: after the i-th recorded observation of a sequence with             *)
(* non-negative bit counts, the sample window of capacity N holds exactly  *)
(* min(i, N) observations, the most recent ones in insertion order.        *)
(***************************************************************************)
C10_WindowRecent ==
    (\A i \in 1..Len(obsLog) : BitsOf(obsLog[i]) >= 0) => WindowIsRecentTail

\* C10 for sequences with positive bit counts: after the i-th recorded
\* observation of a sequence whose bit counts are all positive, the window
\* holds exactly the min(i, N) most recent observations in insertion order.
C10_WindowRecent_Positive ==
    (\A i \in 1..Len(obsLog) : BitsOf(obsLog[i]) > 0) => WindowIsRecentTail

\* Three positive observations went into a BurstRTC window of capacity 2:
\* the oldest was evicted.
C10_Witness ==
    /\ ctrlKind = "burst"
    /\ burst.cfg.WindowSize = 2
    /\ Len(obsLog) = 3
    /\ \A i \in 1..3 : obsLog[i].SentBits > 0
    /\ burst.observations = <<obsLog[2], obsLog[3]>>
(***************************************************************************)
(* C11: in each sender (NDTC, Salsify, BurstRTC), once the peer-connection *)
(* or ICE state has become Failed, Closed or Disconnected, the             *)
(* cancellation token has fired, and the send loop eventually stops        *)
(* running instead of sending on until the end of the input.               *)
(***************************************************************************)
C11_CancelStopsSendLoop ==
    /\ [](sender.peerDown => sender.cancelled)
    /\ (sender.peerDown ~> ~LoopRunning)

(***************************************************************************)
(* C12: in each send loop a WriteSample error is a cancellation: once a    *)
(* WriteSample has failed, no further sample has been submitted, the loop  *)
(* has exited and completion was signalled on the done channel.            *)
(***************************************************************************)
C12_WriteErrorStopsLoop ==
    sender.writeFailed =>
        /\ sender.afterFail = 0
        /\ ~LoopRunning
        /\ sender.signalled

(***************************************************************************)
(* C16: the codec contexts are freed only after the send loop has exited:  *)
(* freeVideoCoding never has run while the send-loop goroutine is at a     *)
(* point from which it goes on to use the codec.                           *)
(***************************************************************************)
LoopUsesCodec == sender.loopPc \in {"read", "encode", "packet"}

C16_CodecOwnedBySendLoop == ~(sender.codecFreed /\ LoopUsesCodec)

(***************************************************************************)
(* C13: the receive loop terminates once a stop condition holds, whatever  *)
(* the transport does: it is never still running a second after 5 s        *)
(* without a packet, or a second after the maximum duration, and a stop    *)
(* condition that holds leads to the loop having stopped.                  *)
(***************************************************************************)
StopCondition ==
    \/ MaxDurationReached(recvLoop)
    \/ MaxSizeReached(recvLoop)
    \/ ReadTimedOut(recvLoop)

Overdue ==
    \/ recvLoop.now - recvLoop.lastReadTime > readTimeout + 1
    \/ /\ recvLoop.maxDuration > 0
       /\ recvLoop.now - recvLoop.startTime > recvLoop.maxDuration

C13_StopConditionTerminatesLoop ==
    /\ [](Overdue => recvLoop.pc = "stopped")
    /\ (StopCondition ~> recvLoop.pc = "stopped")

(***************************************************************************)
(* C14: when the sender epoch was loaded and the frame metadata has a row  *)
(* for frame index k, the latency_ms written for frame k is the receive    *)
(* time relative to the epoch (timestamp_ms) minus the row's               *)
(* send_start_ms, whatever the difference is (zero and negative included). *)
(***************************************************************************)
C14_LatencyIsEndToEnd ==
    \A i \in 1..Len(metrics.rows) :
        LET row == metrics.rows[i]
        IN  (metrics.epochLoaded
             /\ row.frame_index \in DOMAIN metrics.frameMetadataMap) =>
                row.latency_ms =
                    1000 * (row.timestamp_ms
                            - metrics.frameMetadataMap[row.frame_index])

(***************************************************************************)
(* C15: the receiver frame counter advances by exactly one each time the   *)
(* depacketizer emits a NAL unit of type 1 or 5, however it arrived        *)
(* (Single-NAL, inside a STAP-A, FU-A reassembly), and at no other time:   *)
(* the counter equals the number of such NAL units in the output.          *)
(***************************************************************************)
\* The NAL units of the output: every second Write call, after its start
\* code.
EmittedNals == [i \in 1..(Len(file) \div 2) |-> file[2 * i]]

FrameStartNalCount ==
    Cardinality({i \in DOMAIN EmittedNals :
                    IsFrameStartType(NalTypeOf(EmittedNals[i][1]))})

C15_FrameCounterCountsFrameStarts == frameID = FrameStartNalCount

(***************************************************************************)
(* C17: updateEncoderForBudgetBurst maps every budget to a CRF in          *)
(* [18, 32]: 32 for budgets <= 50 000 bits, 18 for budgets >= 500 000, in  *)
(* between the point on the line from (50 000, 32) to (500 000, 18) (the   *)
(* integer CRF lies less than one above the line), and a larger budget     *)
(* never maps to a larger CRF.                                             *)
(***************************************************************************)
\* 450 000 * (crf - line(bits)), where line(bits) = 32 - 14 * (bits -
\* 50 000) / 450 000.
AboveLineScaled(bits, crf) == 450000 * (crf - 32) + 14 * (bits - 50000)

C17_CrfMapping ==
    \A i \in 1..Len(enc.history) :
        LET c == enc.history[i]
        IN  /\ c.targetCRF >= 18 /\ c.targetCRF <= 32
            /\ c.targetBits <= 50000 => c.targetCRF = 32
            /\ c.targetBits >= 500000 => c.targetCRF = 18
            /\ (c.targetBits > 50000 /\ c.targetBits < 500000) =>
                  /\ AboveLineScaled(c.targetBits, c.targetCRF) >= 0
                  /\ AboveLineScaled(c.targetBits, c.targetCRF) < 450000
            /\ \A j \in 1..Len(enc.history) :
                  c.targetBits <= enc.history[j].targetBits =>
                      c.targetCRF >= enc.history[j].targetCRF

\* Two calls were made, one in the interpolated range and one clamped.
C17_Witness ==
    /\ Len(enc.history) = 2
    /\ enc.history[1].targetBits = 275000 /\ enc.history[1].targetCRF = 25
    /\ enc.history[2].targetBits = 500001 /\ enc.history[2].targetCRF = 18

(***************************************************************************)
(* C18: the encoder is rebuilt only when the mapped CRF differs from the   *)
(* currently applied CRF by more than 2: a call whose mapped CRF is within *)
(* 2 of the current CRF leaves the codec context and the current CRF       *)
(* unchanged, and a call that changes either had a mapped CRF more than 2  *)
(* away from the current one.                                              *)
(***************************************************************************)
LastCall == enc'.history[Len(enc'.history)]

C18_RebuildOnlyBeyondHysteresis ==
    [][LET within == absBurst(LastCall.targetCRF - enc.burstCurrentCRF) <= 2
           unchanged == /\ enc'.context = enc.context
                        /\ enc'.burstCurrentCRF = enc.burstCurrentCRF
       IN  /\ within => unchanged
           /\ ~unchanged => ~within]_vars

\* After a rebuild for 275 000 bits (CRF 25) a call with 250 000 bits (CRF
\* 26, one unit away) was made and left the encoder alone.
C18_Witness ==
    /\ Len(enc.history) = 2
    /\ enc.history[1].targetBits = 275000 /\ enc.history[1].rebuilt
    /\ enc.history[2].targetBits = 250000 /\ enc.history[2].targetCRF = 26
    /\ enc.burstCurrentCRF = 25
    /\ enc.context = [gen |-> 1, state |-> "open", crf |-> 25]

(***************************************************************************)
(* C19: SalsifyController.NextFrameBudget returns throughput x frame       *)
(* period x safety margin, times max(0.3, 1 - 10 x (loss rate - 0.02))     *)
(* when the loss rate exceeds 0.02, clamped to [10 000, 5 000 000]; with   *)
(* throughput 2 Mbit/s, the 1/30 s frame period, safety margin 0.7 and     *)
(* loss rate 0.03 it returns exactly 42 000 bits.                          *)
(***************************************************************************)
ClaimedScale(lossRate) ==
    LET s == RSub(R(1), RMul(R(10), RSub(lossRate, Rat(2, 100))))
    IN  IF RLt(s, Rat(3, 10)) THEN Rat(3, 10) ELSE s

ClaimedBudget(c) ==
    LET p == <<c.avgThroughputBitsPerSec, Seconds(c.cfg.FrameInterval),
               c.cfg.SafetyMargin>>
        t == TruncProd(IF RLt(Rat(2, 100), c.lossRate)
                       THEN Append(p, ClaimedScale(c.lossRate)) ELSE p)
    IN  IF t < 10000 THEN 10000 ELSE IF t >= 5000000 THEN 5000000 ELSE t

IsC19Example(c) ==
    /\ c.avgThroughputBitsPerSec = R(2000000)
    /\ c.cfg.FrameInterval = Second \div 30
    /\ c.cfg.SafetyMargin = Rat(7, 10)
    /\ c.lossRate = Rat(3, 100)

C19_SalsifyBudgetFormula ==
    budget.kind = "salsify" =>
        /\ budget.bits = ClaimedBudget(salsify)
        /\ IsC19Example(salsify) => budget.bits = 42000

(***************************************************************************)
(* C20: OnLossEvent multiplies a positive NDTC capacity by the             *)
(* multiplicative-decrease ratio (0.5 by default), OnNoLossPeriod by       *)
(* (1 + additive step), and the next NextFrameBudget returns               *)
(* floor(T_R x capacity); seeded at 4 Mbit/s with T_R = 0.8/30 s, one      *)
(* OnLossEvent gives 2 Mbit/s and target_bits 53 333.                      *)
(***************************************************************************)
\* The ratio and the step as configured, the defaults standing in for
\* values outside their range.
ClaimedMdRatio(cfg) ==
    IF RLe0(cfg.MdRatio) \/ RLe(R(1), cfg.MdRatio) THEN Rat(1, 2)
    ELSE cfg.MdRatio

ClaimedAiStep(cfg) == IF RLe0(cfg.AiStep) THEN Rat(1, 20) ELSE cfg.AiStep

ClaimedTRecv(cfg) == IF cfg.TRecv <= 0 THEN 26666666 ELSE cfg.TRecv

\* floor(T_R x capacity) for a positive capacity; a capacity in the
\* subnormal range times a duration in seconds is below 1.
FloorBits(cfg, capacity) ==
    IF capacity.sub THEN 0
    ELSE TruncProd(<<Seconds(ClaimedTRecv(cfg)), capacity.v>>)

LossAndStablePeriodScale ==
    /\ (NdtcOnLossEvent /\ FPos(ndtc.capacityBps)) =>
          ndtc'.capacityBps = FMul(ClaimedMdRatio(ndtc.cfg), ndtc.capacityBps)
    /\ (NdtcOnNoLossPeriod /\ FPos(ndtc.capacityBps)) =>
          ndtc'.capacityBps =
              FMul(RAdd(R(1), ClaimedAiStep(ndtc.cfg)), ndtc.capacityBps)
    /\ (NdtcOnLossEvent /\ ndtc.capacityBps = Normal(R(4000000))
        /\ ndtc.cfg.MdRatio = Rat(1, 2)) =>
          ndtc'.capacityBps = Normal(R(2000000))
    /\ (NdtcBudget /\ ndtc.capacityBps = Normal(R(2000000))
        /\ ndtc.cfg.TRecv = 26666666) =>
          budget'.bits = 53333

\* As claimed: the budget is floor(T_R x capacity).
C20_LossHalvesBudgetIsFloor ==
    [][/\ LossAndStablePeriodScale
       /\ (NdtcBudget /\ FPos(ndtc.capacityBps)) =>
             budget'.bits = FloorBits(ndtc.cfg, ndtc.capacityBps)]_vars

\* As amended: a budget below 1 is raised to 1.
C20_LossHalvesBudgetIsFloorAtLeastOne ==
    [][/\ LossAndStablePeriodScale
       /\ (NdtcBudget /\ FPos(ndtc.capacityBps)) =>
             budget'.bits =
                 (IF FloorBits(ndtc.cfg, ndtc.capacityBps) < 1 THEN 1
                  ELSE FloorBits(ndtc.cfg, ndtc.capacityBps))]_vars

\* The capacity seeded at 4 Mbit/s was halved by one OnLossEvent and the
\* budget asked for.
C20_Witness ==
    /\ ctrlKind = "ndtc"
    /\ ctrlOps = 2
    /\ ndtc.lastEstimatedBps = Normal(R(4000000))
    /\ ndtc.capacityBps = Normal(R(2000000))
    /\ ndtc.cfg.TRecv = 26666666
    /\ budget.kind = "ndtc" /\ budget.bits = 53333

(***************************************************************************)
(* C21: BurstController.NextFrameBudget returns the configured burst       *)
(* fraction multiplied by 0.7 exactly when the coefficient of variation    *)
(* (sample standard deviation divided by mean) of the frame sizes in the   *)
(* window exceeds 0.5, and the configured fraction unchanged otherwise.    *)
(* With the default fraction 0.3 and a coefficient of variation of 0.6 it  *)
(* returns 0.21 (checked on a window of mean 10 000 and deviation 6 000    *)
(* bits, the example's frames at one tenth of their size).                 *)
(***************************************************************************)
\* the frame sizes in the window
WindowSizes == [i \in DOMAIN burst.observations |->
                    burst.observations[i].SentBits]

RECURSIVE SumOf(_, _)
SumOf(xs, i) == IF i = 0 THEN 0 ELSE SumOf(xs, i - 1) + xs[i]

RECURSIVE SquaredDeviations(_, _, _)
SquaredDeviations(xs, i, mean) ==
    IF i = 0 THEN R(0)
    ELSE RAdd(SquaredDeviations(xs, i - 1, mean),
              RMul(RSub(R(xs[i]), mean), RSub(R(xs[i]), mean)))

SampleMean(xs) == Rat(SumOf(xs, Len(xs)), Len(xs))

SampleVariance(xs) ==
    RDiv(SquaredDeviations(xs, Len(xs), SampleMean(xs)), R(Len(xs) - 1))

\* deviation / mean > 1/2, as deviation^2 > (mean / 2)^2
CvExceedsHalf(xs) ==
    /\ Len(xs) >= 2
    /\ RLt(RMul(RMul(Rat(1, 2), SampleMean(xs)),
                RMul(Rat(1, 2), SampleMean(xs))),
           SampleVariance(xs))

C21_FractionReducedOnHighVariation ==
    [][BurstBudget =>
        /\ budget'.fraction =
              (IF CvExceedsHalf(WindowSizes)
               THEN RMul(burst.cfg.BurstFraction, Rat(7, 10))
               ELSE burst.cfg.BurstFraction)
        /\ (/\ burst.cfg.BurstFraction = Rat(3, 10)
            /\ Len(WindowSizes) = 3
            /\ SampleMean(WindowSizes) = R(10000)
            /\ SampleVariance(WindowSizes) = R(6000 * 6000))
                => budget'.fraction = Rat(21, 100)]_vars

\* The budget was asked on a window of 16 000, 4 000 and 10 000 bits (mean
\* 10 000, deviation 6 000) with the fraction 0.3, and 0.21 came back.
C21_Witness ==
    /\ ctrlKind = "burst"
    /\ WindowSizes = <<16000, 4000, 10000>>
    /\ burst.frameSizeMean = R(10000)
    /\ burst.frameSizeVar = R(36000000)
    /\ burst.cfg.BurstFraction = Rat(3, 10)
    /\ budget.kind = "burst" /\ budget.fraction = Rat(21, 100)

(***************************************************************************)
(* C22: in every send loop the steps of a frame occur in this order: the   *)
(* frame counter is incremented, send_start is taken and the budget is     *)
(* queried, the encoded packets of the frame are submitted to the          *)
(* transport, send_end is taken, and only then is the frame's observation  *)
(* recorded in the controller.  No observation is recorded before the      *)
(* frame's last packet was handed to the transport, and the budget query   *)
(* for frame k+1 follows the recording of frame k's observation.           *)
(***************************************************************************)
\* the positions of step e of frame k in the log
StepsAt(e, k) == {i \in DOMAIN sender.log : sender.log[i] = <<e, k>>}

FrameIds == 1..sender.frameID

\* inc, then budget, then the samples, then sendEnd, then record, once each (samples: any
\* number), for every frame that got that far
StepsOfFrameInOrder ==
    \A k \in FrameIds :
        /\ Cardinality(StepsAt("inc", k)) = 1
        /\ Cardinality(StepsAt("budget", k)) = 1
        /\ Cardinality(StepsAt("record", k)) <= 1
        /\ \A i \in StepsAt("inc", k), b \in StepsAt("budget", k) : i < b
        /\ \A b \in StepsAt("budget", k), w \in StepsAt("sample", k) : b < w
        /\ \A w \in StepsAt("sample", k), e \in StepsAt("sendEnd", k) : w < e
        /\ \A e \in StepsAt("sendEnd", k), r \in StepsAt("record", k) : e < r
        /\ \A r \in StepsAt("record", k) : StepsAt("sendEnd", k) # {}
        /\ \A b \in StepsAt("budget", k), r \in StepsAt("record", k) : b < r

\* As claimed: frame k's observation is always recorded before the budget
\* of frame k+1 is queried.
C22_StepsInOrderBudgetAfterRecord ==
    /\ StepsOfFrameInOrder
    /\ \A k \in FrameIds :
          \A b \in StepsAt("budget", k + 1) :
              \E r \in StepsAt("record", k) : r < b

\* As amended: every step of frame k, its recording included if there is
\* one, precedes the budget query of frame k+1; a frame dropped after its
\* budget query has no observation.
C22_StepsInOrderBudgetAfterRecordIfAny ==
    /\ StepsOfFrameInOrder
    /\ \A k \in FrameIds :
          \A b \in StepsAt("budget", k + 1) :
              /\ \A r \in StepsAt("record", k) : r < b
              /\ \A w \in StepsAt("sample", k) : w < b
              /\ \A q \in StepsAt("budget", k) : q < b

\* Two frames went through all their steps, the first in two packets.
C22_Witness ==
    /\ Cardinality(StepsAt("sample", 1)) = 2
    /\ StepsAt("record", 1) # {}
    /\ StepsAt("sample", 2) # {}
    /\ StepsAt("record", 2) # {}

(***************************************************************************)
(* C23: for every frame whose encoded packets were submitted to the        *)
(* transport, the controller consumes its observation exactly once and,    *)
(* when a session directory is set, exactly one row with its frame id is   *)
(* appended to frame_metadata.csv; this holds in the NDTC, the Salsify and *)
(* the BurstRTC sender alike.                                              *)
(***************************************************************************)
\* frame k's packets were submitted: at least one was accepted and the
\* packet loop was left
FrameSubmitted(k) ==
    StepsAt("sample", k) # {} /\ StepsAt("sendEnd", k) # {}

C23_ObservationAndMetadataOnce ==
    \A k \in FrameIds :
        FrameSubmitted(k) =>
            /\ Cardinality(StepsAt("record", k)) = 1
            /\ sender.sessionDir => Cardinality(StepsAt("meta", k)) = 1

(***************************************************************************)
(* C24: on every termination of the receive loop (EOF or closed transport, *)
(* other read error, inactivity timeout, maximum duration, maximum size)   *)
(* the Annex-B writer is flushed and the file fsynced, and the metrics CSV *)
(* of the session is flushed and closed; only after that the client        *)
(* computes the summary from the CSV, and then the process exits.          *)
(***************************************************************************)
\* the positions of a shutdown step
ClosingAt(step) ==
    {i \in DOMAIN recvLoop.closing : recvLoop.closing[i] = step}

FlushedAndClosed ==
    /\ Len(recvLoop.closing) >= 2
    /\ recvLoop.closing[1] = "flush" /\ recvLoop.closing[2] = "fsync"
    /\ recvLoop.sessionDir => ClosingAt("csvClose") # {}

SummaryAfterClose ==
    recvLoop.sessionDir =>
        \E c \in ClosingAt("csvClose"), q \in ClosingAt("summary") : c < q

C24_FlushCloseSummaryExit ==
    /\ [](recvLoop.returned => FlushedAndClosed)
    /\ [](recvLoop.mainPc = "exited" => FlushedAndClosed /\ SummaryAfterClose)
    /\ (recvLoop.pc = "stopped" ~> recvLoop.mainPc = "exited")

(***************************************************************************)
(* C25: p99_latency_ms of the summary is the nearest-rank 99th percentile  *)
(* of the per-frame latencies: for n valid rows, the value at 1-based rank *)
(* ceil(0.99 n) of the latencies sorted in ascending order.                *)
(***************************************************************************)
NearestRank99(n) == (99 * n + 99) \div 100

C25_P99IsNearestRank ==
    metrics.summary.state = "ok" =>
        LET n == Len(metrics.rows)
            sorted == SortSeq([i \in 1..n |-> metrics.rows[i].latency_ms],
                              LAMBDA a, b : a < b)
        IN  metrics.summary.P99LatencyMs = sorted[NearestRank99(n)]

(***************************************************************************)
(* C26: a receiver metric row has stall = true exactly when a previous     *)
(* frame exists and the interval between this frame's and the previous     *)
(* frame's receive times exceeds twice the nominal frame period,           *)
(* 1/frameRate seconds; the first frame is never flagged as a stall.       *)
(***************************************************************************)
LastRow == metrics.rows[Len(metrics.rows)]

\* ticks / TicksPerSecond > 2 * (1 / frameRate)
ExceedsTwoFramePeriods(ticks) == ticks * frameRate > 2 * TicksPerSecond

C26_StallIffIntervalOverTwoPeriods ==
    [][RecordFrameMetrics =>
          /\ LastRow'.stall =
                (/\ metrics.frameID >= 1
                 /\ ExceedsTwoFramePeriods(
                        metrics.now
                        - metrics.received[Len(metrics.received)].Time))
          /\ metrics.frameID = 0 => ~LastRow'.stall]_vars

\* a frame 67 ms after its predecessor is flagged, and one 66.5 ms after
\* its predecessor and the first frame are not
C26_Witness ==
    /\ Len(metrics.rows) >= 3
    /\ ~metrics.rows[1].stall
    /\ \E i, k \in 2..Len(metrics.rows) :
          /\ metrics.rows[i].stall
          /\ metrics.received[i].Time - metrics.received[i - 1].Time = 134
          /\ ~metrics.rows[k].stall
          /\ metrics.received[k].Time - metrics.received[k - 1].Time = 133

(***************************************************************************)
(* C27: the effective bitrate written for a frame is the sum of the bits   *)
(* of the samples received within the last second divided by the time span *)
(* of those samples only when that window holds at least 5 samples that    *)
(* span at least 10 ms and the result is at most 1 Gbit/s; otherwise it    *)
(* equals the value written for the previous frame, and it is 0 for every  *)
(* frame before the first valid computation.                               *)
(***************************************************************************)
\* the samples of frames 1..k received within the second that ends at
\* frame k, as indices into the list of all samples
WithinLastSecond(k) ==
    {i \in 1..k : metrics.received[i].Time
                    > metrics.received[k].Time - TicksPerSecond}

RECURSIVE BitsOver(_)
BitsOver(idx) ==
    IF idx = {} THEN 0
    ELSE LET i == CHOOSE x \in idx : TRUE
         IN  metrics.received[i].Bits + BitsOver(idx \ {i})

SpanOver(idx) ==
    LET lo == CHOOSE i \in idx : \A x \in idx : i <= x
        hi == CHOOSE i \in idx : \A x \in idx : x <= i
    IN  metrics.received[hi].Time - metrics.received[lo].Time

\* kbit/s of the window of frame k: bits per half millisecond, doubled
WindowKbps(k) == Rat(2 * BitsOver(WithinLastSecond(k)),
                     SpanOver(WithinLastSecond(k)))

ValidComputation(k) ==
    /\ Cardinality(WithinLastSecond(k)) >= 5
    /\ SpanOver(WithinLastSecond(k)) >= 20
    /\ ~RLt(R(1000000), WindowKbps(k))

WrittenKbps(k) == metrics.rows[k].effective_bitrate_kbps

C27_BitrateFromValidWindowElsePrevious ==
    \A k \in 1..Len(metrics.rows) :
        /\ ValidComputation(k) => WrittenKbps(k) = WindowKbps(k)
        /\ ~ValidComputation(k) =>
              WrittenKbps(k) = IF k = 1 THEN R(0) ELSE WrittenKbps(k - 1)
        /\ (\A i \in 1..k : ~ValidComputation(i)) => WrittenKbps(k) = R(0)

(***************************************************************************)
(* C28: recording an observation whose bit count is <= 0 is a no-op in     *)
(* every sample window (BurstController.UpdateStats,                       *)
(* SalsifyController.UpdateStats, FdaceWindow.UpdateSample): the window    *)
(* contents and all derived statistics (throughput, loss rate, mean,       *)
(* variance, available bandwidth) are unchanged.                           *)
(***************************************************************************)
LastObservation == obsLog'[Len(obsLog')]

C28_NonPositiveBitsIsNoOp ==
    [][/\ (BurstUpdate /\ LastObservation.SentBits <= 0) => burst' = burst
       /\ (SalsifyUpdate /\ LastObservation.SentBits <= 0)
             => salsify' = salsify
       /\ (NdtcFeedback /\ RLe0(LastObservation.L))
             => fdaceWin' = fdaceWin]_vars

(***************************************************************************)
(* C29: after any sequence of UpdateStats calls, BurstController's         *)
(* available-bandwidth estimate equals the sum of the bits of the          *)
(* observations currently in the window divided by the sum of their send   *)
(* durations: observations that were evicted from the window no longer     *)
(* influence the estimate.  (Stated where the window's durations sum to    *)
(* more than zero.)                                                        *)
(***************************************************************************)
RECURSIVE WindowDurations(_, _)
WindowDurations(obs, i) ==
    IF i = 0 THEN 0 ELSE WindowDurations(obs, i - 1) + obs[i].Duration

C29_AvailableBpsIsOverWindow ==
    LET w == burst.observations
    IN  (ctrlKind = "burst" /\ Len(w) > 0 /\ WindowDurations(w, Len(w)) > 0)
        => burst.availableBps
              = RDiv(R(SumBits(w, Len(w))),
                     Seconds(WindowDurations(w, Len(w))))

(***************************************************************************)
(* C30: SalsifyController's throughput estimate is the sum of bits over    *)
(* the window divided by the sum of per-frame send durations, where each   *)
(* frame's duration is clamped up to at least the frame period: a frame    *)
(* sent in less than one frame period contributes exactly one frame period *)
(* to the denominator.  (Stated as estimate * sum of durations = sum of    *)
(* bits.)                                                                  *)
(***************************************************************************)
RECURSIVE ClampedDurations(_, _, _)
ClampedDurations(obs, i, framePeriod) ==
    IF i = 0 THEN 0
    ELSE ClampedDurations(obs, i - 1, framePeriod)
         + (IF obs[i].Duration < framePeriod THEN framePeriod
            ELSE obs[i].Duration)

C30_ThroughputOverClampedDurations ==
    LET w == salsify.observations
    IN  (ctrlKind = "salsify" /\ Len(w) > 0)
        => RMul(salsify.avgThroughputBitsPerSec,
                Seconds(ClampedDurations(w, Len(w),
                                         salsify.cfg.FrameInterval)))
              = R(SumBits(w, Len(w)))

(***************************************************************************)
(* C31: OnCapacityEstimate(A) with A > 0 sets the capacity to exactly A    *)
(* when no capacity has been established yet, and otherwise to             *)
(* 0.1 * A + 0.9 * capacity, a value between the old capacity and A; with  *)
(* A <= 0 it leaves the capacity and the last estimate unchanged.  (A and  *)
(* the capacity are numbers; the sum is the float64 one.)                  *)
(***************************************************************************)
\* x <= y for two float64 numbers that are not negative
FloatLeq(x, y) ==
    IF x.sub = y.sub THEN RLe(x.v, y.v)
    ELSE IF x.sub THEN y.v.n > 0 \/ x.v.n = 0
    ELSE x.v.n = 0

FloatBetween(x, lo, hi) ==
    \/ FloatLeq(lo, x) /\ FloatLeq(x, hi)
    \/ FloatLeq(hi, x) /\ FloatLeq(x, lo)

C31_EstimateSeedsOrSmooths ==
    ctrlKind = "ndtc" =>
        \A A \in Estimates :
            (~IsNaN(A.v) /\ ~IsNaN(ndtc.capacityBps.v)) =>
                LET after == OnCapacityEstimate(ndtc, A)
                    smoothed == FAdd(FMul(Rat(1, 10), A),
                                     FMul(Rat(9, 10), ndtc.capacityBps))
                IN  IF A.v.n > 0
                    THEN /\ after.lastEstimatedBps = A
                         /\ after.cfg = ndtc.cfg
                         /\ IF ndtc.capacityBps.v.n > 0
                            THEN /\ after.capacityBps = smoothed
                                 /\ FloatBetween(after.capacityBps,
                                                 ndtc.capacityBps, A)
                            ELSE after.capacityBps = A
                    ELSE after = ndtc

\* a capacity halved by a loss and then smoothed towards a new estimate:
\* 0.1 * 4000000 + 0.9 * 2000000
C31_Witness ==
    /\ ctrlKind = "ndtc"
    /\ ndtc.lastEstimatedBps = Normal(R(4000000))
    /\ ndtc.capacityBps = Normal(R(2200000))

(***************************************************************************)
(* C32: after the FU-A reassembly buffer has been cleared without emission *)
(* (type mismatch on a continuation fragment, or an interleaved Single-NAL *)
(* or STAP-A packet), FU-A continuation and end fragments emit nothing     *)
(* until a fragment with the start bit arrives: a fragment without the     *)
(* start bit that meets a cleared buffer writes nothing, counts no frame   *)
(* and leaves the buffer cleared.                                          *)
(***************************************************************************)
LastPacket == packets'[Len(packets')]

IsFuAFragment(payload) ==
    /\ Len(payload) >= 2
    /\ NalTypeOf(payload[1]) = 28

C32_NoEmissionUntilStart ==
    [][(/\ packets' # packets
        /\ fuBuffer.isNil
        /\ IsFuAFragment(LastPacket)
        /\ ~StartBit(LastPacket[2]))
          => /\ file' = file
             /\ frameID' = frameID
             /\ fuBuffer'.isNil]_vars

\* a start of type 5, a continuation of type 1 that clears the buffer, then
\* the continuation and the end of type 5: nothing was written
C32_Witness ==
    /\ packets = << <<124, 133, 170>>, <<124, 1, 187>>,
                    <<124, 5, 187>>, <<124, 69, 204>> >>
    /\ file = <<>>
    /\ fuBuffer.isNil

(***************************************************************************)
(* C33: every NAL unit emitted from FU-A reassembly contains the payload   *)
(* of every fragment of that NAL unit, in the sender's order: when a       *)
(* continuation fragment of the NAL unit is lost or arrives out of order,  *)
(* the in-progress NAL unit is discarded rather than emitted with bytes    *)
(* missing or misplaced.  (The unit written on an end fragment is the unit *)
(* the sender fragmented.)                                                 *)
(***************************************************************************)
C33_FuAEmitsWholeUnitsOnly ==
    [][(/\ packets' # packets
        /\ IsFuAFragment(LastPacket)
        /\ file' # file)
          => file' = file \o <<startCode, sent[Len(sent)]>>]_vars

(***************************************************************************)
(* C34: for each frame the Salsify send loop sends the candidate with the  *)
(* lowest QP among the candidates whose bit count is <= the budget; when   *)
(* every candidate exceeds the budget it sends the smallest candidate (the *)
(* one with the fewest bits), and the bit count reported to the controller *)
(* is that of the candidate sent.                                          *)
(***************************************************************************)
WithinBudget ==
    {i \in 1..Len(enc.candidates) : enc.candidates[i].Bits <= enc.budgetBits}

C34_LowestQpWithinBudgetElseSmallest ==
    enc.pc = "sent" =>
        LET c == enc.candidates
            chosen == c[enc.selected]
        IN  /\ enc.sentBitsForFrame = chosen.Bits
            /\ WithinBudget # {} =>
                  /\ enc.selected \in WithinBudget
                  /\ \A i \in WithinBudget : chosen.QP <= c[i].QP
            /\ WithinBudget = {} =>
                  \A i \in 1..Len(c) : chosen.Bits <= c[i].Bits

(***************************************************************************)
(* C35: in every controller-driven send loop (NDTC, Salsify, BurstRTC) the *)
(* budget returned by NextFrameBudget for a frame is applied to the        *)
(* encoding of that same frame - by reconfiguring the encoder through the  *)
(* adaptation shim or by budget-based candidate selection - after the      *)
(* budget query and before the frame is sent.                              *)
(***************************************************************************)
C35_BudgetAppliedToItsFrame ==
    \A k \in FrameIds :
        StepsAt("sample", k) # {} =>
            \E a \in StepsAt("apply", k) :
                /\ \A b \in StepsAt("budget", k) : b < a
                /\ \A w \in StepsAt("sample", k) : a < w

(***************************************************************************)
(* C36: every path on which a send loop stops iterating (end of input      *)
(* without loop mode, cancellation, send-sample failure, failure to seek   *)
(* back to the beginning in loop mode) delivers the completion signal on   *)
(* the done channel without blocking, so main always proceeds to close the *)
(* peer connection after the loop has stopped: a loop that has stopped has *)
(* signalled.                                                              *)
(***************************************************************************)
C36_StoppedLoopHasSignalled ==
    sender.loopPc = "exited" => sender.signalled

(***************************************************************************)
(* C37: for any sequence of budgets, after every call of                   *)
(* updateEncoderForBudgetBurst that returns without error the CRF applied  *)
(* to the encoder differs by at most 2 from the CRF mapped from that       *)
(* call's budget: the hysteresis is measured against the applied CRF, so   *)
(* the applied CRF never drifts further than 2 from the target.            *)
(***************************************************************************)
\* the call kept the encoder, or rebuilt and opened it
ReturnedNil == ~LastCall.rebuilt \/ enc'.context.state = "open"

C37_AppliedCrfWithinTwoOfTarget ==
    [][(UpdateEncoder /\ ReturnedNil)
          => /\ enc'.context.state = "open"
             /\ absBurst(enc'.context.crf - LastCall.targetCRF) <= 2]_vars

(***************************************************************************)
(* C38: with the default NDTC configuration (T_S = 0.7 x T_F, +-10 %       *)
(* jitter) and a send-loop frame period equal to T_F = 1/30 s, every       *)
(* pacing_duration returned by NextFrameBudget lies in                     *)
(* [0.63 x T_F, 0.77 x T_F], so the condition pacing_duration >            *)
(* frame_period is never true and the send loop never sleeps for pacing.   *)
(* Durations are whole nanoseconds: T_F is 33333333, T_S is 23333333, and  *)
(* the product with the jitter is truncated.                               *)
(***************************************************************************)
\* the largest whole number of nanoseconds not above k per cent of d
PerCentDown(k, d) == k * (d \div 100) + (k * (d % 100)) \div 100

\* the smallest whole number of nanoseconds not below k per cent of d
PerCentUp(k, d) ==
    IF (k * (d % 100)) % 100 = 0 THEN PerCentDown(k, d)
    ELSE PerCentDown(k, d) + 1

DefaultConfigBudget ==
    NdtcBudget /\ ndtc.cfg = NewNdtcController.cfg

\* as stated: the pacing is at least 0.63 x T_F
C38_PacingWithinJitterOfTSend ==
    [][DefaultConfigBudget
          => /\ PerCentUp(63, frame) <= budget'.pacing
             /\ budget'.pacing <= PerCentDown(77, frame)
             /\ ~(budget'.pacing > frame)]_vars

\* the lower end taken in whole nanoseconds, rounded down
C38_PacingNeverExceedsFramePeriod ==
    [][DefaultConfigBudget
          => /\ PerCentDown(63, frame) <= budget'.pacing
             /\ budget'.pacing <= PerCentDown(77, frame)
             /\ ~(budget'.pacing > frame)]_vars

C38_Witness ==
    /\ ndtc.cfg = NewNdtcController.cfg
    /\ budget.kind = "ndtc"
    /\ budget.pacing = 20999999
    /\ budget.pacing < PerCentUp(63, frame)

(***************************************************************************)
(* C39: in client-ndtc, once the peer connection reaches Failed, Closed or *)
(* Disconnected, main eventually gets past its wait on recvDone and exits, *)
(* also when the connection fails before any H.264 track was delivered to  *)
(* OnTrack; recvDone is closed at most once whatever the number of tracks. *)
(***************************************************************************)
C39_MainExitsAfterConnectionOver ==
    /\ [](recvLoop.closes <= 1)
    /\ (recvLoop.conn \in OverStates) ~> (recvLoop.mainPc = "exited")

(***************************************************************************)
(* C40: total_duration_seconds in the summary equals (timestamp_ms of the  *)
(* last valid row - timestamp_ms of the first valid row) / 1000 for every  *)
(* metrics CSV, whatever the value of the first row's relative timestamp   *)
(* (including 0).  Stated in milliseconds.                                 *)
(***************************************************************************)
C40_DurationFromFirstToLastRow ==
    metrics.summary.state = "ok"
        => metrics.summary.TotalDurationMs =
               metrics.rows[Len(metrics.rows)].timestamp_ms
                   - metrics.rows[1].timestamp_ms

====
